---- MODULE Spec2Model ----
(***************************************************************************)
(* Course listing viewer: ingestion, cache hydration and the enrichment    *)
(* run (fetchNivelForSelected over pLimit) of the App component.           *)
(*                                                                         *)
(* Strings are sequences of one-character strings, so that trimming,       *)
(* case folding and URI encoding are computed and not assumed.  A value    *)
(* that JavaScript would hold as undefined/null is NULL.                   *)
(*                                                                         *)
(* JavaScript runs one macrotask at a time: a handler runs up to its next  *)
(* await without interleaving.  The synchronous part of a run is split     *)
(* into steps by pc so that the order of its effects is visible; every     *)
(* event of the environment (a click, an edit, a response) is enabled only *)
(* when the run is suspended at an await (Suspended).  React state setters *)
(* with a functional updater take effect in call order; they are modelled  *)
(* at the call.                                                            *)
(***************************************************************************)
EXTENDS Integers, Sequences, FiniteSets, TLC

\* ------------------------------------------------------------------ bounds

\* Largest batch a load of the session specification produces.
MaxRows == 2
\* Number of selected records of the scheduler specification (SpecRun).
MaxFetch == 6
\* Capacity of the durable slot in the specification of the trimming (SpecSave),
\* in the place of NIVEL_CACHE_MAX.
MaxKept == 2

\* ----------------------------------------------------------------- strings

NULL == <<"null">>
EMPTY == <<>>

Truthy(s) == s # EMPTY /\ s # NULL

\* a || b on strings
OrElse(a, b) == IF Truthy(a) THEN a ELSE b

\* a ?? b
Coalesce(a, b) == IF a # NULL THEN a ELSE b

RECURSIVE trimStart(_)
trimStart(s) ==
  IF s = EMPTY THEN EMPTY
  ELSE IF Head(s) = " " THEN trimStart(Tail(s)) ELSE s

RECURSIVE trimEnd(_)
trimEnd(s) ==
  IF s = EMPTY THEN EMPTY
  ELSE IF s[Len(s)] = " " THEN trimEnd(SubSeq(s, 1, Len(s) - 1)) ELSE s

trim(s) == trimEnd(trimStart(s))

UpperChar(c) ==
  CASE c = "a" -> "A"
    [] c = "b" -> "B"
    [] c = "c" -> "C"
    [] OTHER -> c

LowerChar(c) ==
  CASE c = "A" -> "a"
    [] c = "B" -> "b"
    [] c = "C" -> "c"
    [] c = "D" -> "d"
    [] c = "E" -> "e"
    [] c = "F" -> "f"
    [] c = "G" -> "g"
    [] c = "H" -> "h"
    [] c = "I" -> "i"
    [] c = "J" -> "j"
    [] c = "K" -> "k"
    [] c = "L" -> "l"
    [] c = "M" -> "m"
    [] c = "N" -> "n"
    [] c = "O" -> "o"
    [] c = "P" -> "p"
    [] c = "Q" -> "q"
    [] c = "R" -> "r"
    [] c = "S" -> "s"
    [] c = "T" -> "t"
    [] c = "U" -> "u"
    [] c = "V" -> "v"
    [] c = "W" -> "w"
    [] c = "X" -> "x"
    [] c = "Y" -> "y"
    [] c = "Z" -> "z"
    [] c = "Á" -> "á"
    [] c = "É" -> "é"
    [] c = "Í" -> "í"
    [] c = "Ó" -> "ó"
    [] c = "Ú" -> "ú"
    [] c = "Ñ" -> "ñ"
    [] OTHER -> c

toUpperCase(s) == [i \in 1..Len(s) |-> UpperChar(s[i])]

toLowerCase(s) == [i \in 1..Len(s) |-> LowerChar(s[i])]

\* s.includes(q)
includes(s, q) ==
  \E i \in 1..(Len(s) + 1) :
    /\ i + Len(q) - 1 <= Len(s)
    /\ SubSeq(s, i, i + Len(q) - 1) = q

RECURSIVE encodeURIComponent(_)
encodeURIComponent(s) ==
  IF s = EMPTY THEN EMPTY
  ELSE (IF Head(s) = " " THEN <<"%", "2", "0">> ELSE <<Head(s)>>)
         \o encodeURIComponent(Tail(s))

BASE_SEPE == <<"https://sede.sepe.gob.es/especialidadesformativas/RXBuscadorEFRED/DetalleEspecialidad.do?codEspecialidad=">>

normCode(code) == toUpperCase(trim(OrElse(code, EMPTY)))

makeUrl(code) ==
  LET normalized == normCode(code)
  IN  IF normalized # EMPTY THEN BASE_SEPE \o encodeURIComponent(normalized) ELSE EMPTY

\* ---------------------------------------------------------- field names

\* s.normalize("NFD"): a letter with an acute accent becomes the letter and
\* the combining accent, written "´"
RECURSIVE normalizeNFD(_)
normalizeNFD(s) ==
  IF s = EMPTY THEN EMPTY
  ELSE (CASE Head(s) = "í" -> <<"i", "´">>
          [] Head(s) = "Í" -> <<"I", "´">>
          [] Head(s) = "ó" -> <<"o", "´">>
          [] Head(s) = "Ó" -> <<"O", "´">>
          [] OTHER -> <<Head(s)>>) \o normalizeNFD(Tail(s))

\* s.replace(rx, "") for a pattern rx that matches the characters of chars
without(s, chars) == SelectSeq(s, LAMBDA c : c \notin chars)

\* (mutant) the diacritics are left in
normKeepsDiacritics(s) == trim(without(normalizeNFD(toLowerCase(s)), {" "}))

\* const norm of normalizeHeaders
norm(s) == trim(without(without(normalizeNFD(toLowerCase(s)), {"´"}), {" "}))

\* const map of normalizeHeaders
headerMap ==
  <<"c", "o", "d", "i", "g", "o", "d", "e", "l", "c", "u", "r", "s", "o">> :> <<"C", "o", "d", "i", "g", "o">> @@
  <<"c", "o", "d", "i", "g", "o">> :> <<"C", "o", "d", "i", "g", "o">> @@
  <<"e", "s", "p", "e", "c", "i", "a", "l", "i", "d", "a", "d">> :> <<"E", "s", "p", "e", "c", "i", "a", "l", "i", "d", "a", "d">> @@
  <<"d", "e", "n", "o", "m", "i", "n", "a", "c", "i", "o", "n">> :> <<"D", "e", "n", "o", "m", "i", "n", "a", "c", "i", "o", "n">> @@
  <<"i", "n", "i", "c", "i", "o">> :> <<"I", "n", "i", "c", "i", "o">> @@
  <<"f", "i", "n">> :> <<"F", "i", "n">> @@
  <<"m", "o", "d", "a", "l", "i", "d", "a", "d">> :> <<"M", "o", "d", "a", "l", "i", "d", "a", "d">> @@
  <<"c", "e", "n", "t", "r", "o">> :> <<"C", "e", "n", "t", "r", "o">> @@
  <<"m", "u", "n", "i", "c", "i", "p", "i", "o">> :> <<"M", "u", "n", "i", "c", "i", "p", "i", "o">> @@
  <<"l", "o", "c", "a", "l", "i", "d", "a", "d">> :> <<"M", "u", "n", "i", "c", "i", "p", "i", "o">>

\* The names map inherits from Object.prototype that norm can produce, and
\* the property key the inherited value becomes in out[nk]
inheritedKeys ==
  <<"c", "o", "n", "s", "t", "r", "u", "c", "t", "o", "r">> :> <<"function Object() { [native code] }">>

\* map[norm(k)] || k, as the property key of out
headerKey(k) ==
  IF norm(k) \in DOMAIN headerMap THEN headerMap[norm(k)]
  ELSE IF norm(k) \in DOMAIN inheritedKeys THEN inheritedKeys[norm(k)]
  ELSE k

\* normalizeHeaders(obj): obj is the sequence of its properties [k, v] in
\* the order of Object.keys; a later property overwrites an earlier one of
\* the same output key
normalizeHeaders(obj) ==
  [nk \in { headerKey(obj[i].k) : i \in 1..Len(obj) } |->
     LET last == CHOOSE i \in 1..Len(obj) :
                   /\ headerKey(obj[i].k) = nk
                   /\ \A j \in (i + 1)..Len(obj) : headerKey(obj[j].k) # nk
     IN  obj[last].v]

\* ------------------------------------------------------------------ inputs

\* Texts of the Especialidad cell: empty, a code to trim and fold, and a code
\* with an inner blank to encode.
EspValues == { EMPTY, <<" ", "a">>, <<"b", " ", "c">> }

\* Elements of a JSON feed: [Eespecialidad, Especialidad, Nivel, SEPE_URL],
\* a missing key being NULL.
JsonRecords ==
  { [Eespecialidad |-> NULL, Especialidad |-> <<" ", "a">>, Nivel |-> NULL, SEPE_URL |-> NULL],
    [Eespecialidad |-> <<"b", " ", "c">>, Especialidad |-> <<" ", "a">>, Nivel |-> NULL, SEPE_URL |-> NULL],
    [Eespecialidad |-> NULL, Especialidad |-> <<"b", " ", "c">>, Nivel |-> <<"2">>, SEPE_URL |-> NULL] }

\* Responses of the lookup endpoint: ok is res.ok, nivel is data.nivel when it
\* is a string and NULL otherwise, sepe_url is data.sepe_url.
Responses ==
  { [ok |-> FALSE, nivel |-> NULL, sepe_url |-> NULL],
    [ok |-> TRUE, nivel |-> NULL, sepe_url |-> NULL],
    [ok |-> TRUE, nivel |-> <<"2">>, sepe_url |-> NULL] }

\* An endpoint that also answers with a blank level and with its own URL, and
\* with the empty string as level.
BlankResponses ==
  Responses \cup { [ok |-> TRUE, nivel |-> <<" ">>, sepe_url |-> <<"u">>],
                   [ok |-> TRUE, nivel |-> EMPTY, sepe_url |-> NULL] }

ApiBases == { EMPTY, <<"h">> }

Searches == { EMPTY, <<"a">> }

\* RowId prefixes of the tabular loads: feed_ (.xlsx feed), csv_, xlsx_
Prefixes == { "feed", "csv", "xlsx" }

SeqsUpTo(S, n) == UNION { [1..k -> S] : k \in 0..n }

\* ------------------------------------------------------------------- state

VARIABLES
  rows,            \* useState<Course[]>: the batch
  selectedRowIds,  \* the RowIds whose entry of selectedRowIds is true
  nivelCache,      \* useState<Record<string, NivelCacheEntry>>
  storage,         \* localStorage slot NIVEL_CACHE_KEY
  apiBase,
  search,
  loadingNivel,
  clock,           \* Date.now(); no specification below lets time pass
  mounted,         \* the App component is mounted
  pendingLoad,     \* a load awaiting its source: the nivelCache of its closure
  input,           \* the argument of a function applied on its own
  output,          \* its return value
  alert,           \* the alert raised by the last step ("" when none)
  pc,              \* where fetchNivelForSelected / pLimit stands
  now,             \* const now of the run
  selected,        \* const selected of the run, as the RowIds
  toFetch,         \* rows of the run that need a lookup (the tasks), as the
                   \* fields read after Step 1: RowId and Especialidad
  cachedRows,      \* Step 1's cachedRows, until Steps 2 and 3 have used them
  nextTask,        \* the for-loop position of pLimit
  status,          \* per task: "queued", "inflight", "done"
  executing,       \* pLimit's executing array (task numbers)
  results          \* pLimit's results array

vars == << rows, selectedRowIds, nivelCache, storage, apiBase, search, loadingNivel,
           clock, mounted, pendingLoad, input, output, alert, pc, now, selected, toFetch, cachedRows, nextTask, status,
           executing, results >>

appVars == << rows, selectedRowIds, nivelCache, storage, apiBase, search, loadingNivel, clock, mounted, pendingLoad, input, output >>

runVars == << pc, now, selected, toFetch, cachedRows, nextTask, status, executing, results >>

EmptyCache == [k \in {} |-> [nivel |-> EMPTY, sepe_url |-> EMPTY, ts |-> 0]]

CachePut(cache, k, e) ==
  [x \in (DOMAIN cache) \cup {k} |-> IF x = k THEN e ELSE cache[x]]

Course(id, esp, nivel, url) ==
  [RowId |-> id, Especialidad |-> esp, Nivel |-> nivel, SEPE_URL |-> url]

\* (mutant) the position in the source is left out of the RowId
RowIdOfNoIndex(prefix, t, i) == [src |-> prefix, t |-> t, i |-> 0]

RowIdOf(prefix, t, i) == [src |-> prefix, t |-> t, i |-> i]

\* ------------------------------------------------------------------- cache

NIVEL_CACHE_MAX == 1000

\* NIVEL_TTL_MS = 180 * 24 * 60 * 60 * 1000; the clock of the specifications of
\* the durable slot counts days.
NIVEL_TTL_DAYS == 180

\* A ts that is truthy and not a number (a text such as "x"): now - ts and
\* b.ts - a.ts are NaN.
NOT_A_NUMBER == 0 - 1

\* entries.sort((a, b) => b[1].ts - a[1].ts).slice(0, cap): the key sets the
\* slice can keep.  The sort is stable, so among entries of equal ts the order
\* of the keys in the object decides; that order is not modelled.  With a ts
\* that is not a number the comparator answers NaN, it is not a consistent
\* comparator and the order of the sort is implementation-defined: any cap
\* entries can be kept.
keepSets(cache, cap) ==
  { K \in SUBSET DOMAIN cache :
      /\ Cardinality(K) = cap
      /\ \/ \E x \in DOMAIN cache : cache[x].ts = NOT_A_NUMBER
         \/ \A k \in K, d \in (DOMAIN cache) \ K : cache[k].ts >= cache[d].ts }

\* the mappings saveNivelCache can write for a capacity cap
persistedMappings(cache, cap) ==
  IF Cardinality(DOMAIN cache) > cap
    THEN { [k \in K |-> cache[k]] : K \in keepSets(cache, cap) }
    ELSE { cache }

\* The mapping saveNivelCache writes: over the capacity, the entries with the
\* greatest ts.
trimmedCache(cache) ==
  LET keep == CHOOSE K \in keepSets(cache, NIVEL_CACHE_MAX) : TRUE
  IN  [k \in keep |-> cache[k]]

\* The content of the durable slot: kind is "absent" (getItem returns null),
\* "denied" (getItem throws), "empty" (the empty string), "garbage" (JSON.parse
\* throws), "null" (the text null) or "object", with data the parsed object.
saveNivelCache(cache) ==
  IF Cardinality(DOMAIN cache) > NIVEL_CACHE_MAX
    THEN [kind |-> "object", data |-> trimmedCache(cache)]
    ELSE [kind |-> "object", data |-> cache]

\* localStorage.setItem succeeds (ok) or throws, which saveNivelCache swallows
writeSlot(slot, data, ok) == IF ok THEN [kind |-> "object", data |-> data] ELSE slot

\* !obj[k]?.ts || now - obj[k].ts > NIVEL_TTL_MS; ts = 0 stands for every
\* falsy ts (0, a missing ts, a null entry), and NaN > NIVEL_TTL_MS is false
expired(entry, t) ==
  \/ entry.ts = 0
  \/ entry.ts # NOT_A_NUMBER /\ t - entry.ts > NIVEL_TTL_DAYS

\* (mutant) loadNivelCache without its try/catch
loadFailsUncaught(slot) == slot.kind \in {"denied", "garbage", "null"}

\* whether loadNivelCache throws: its try/catch returns {} on every exception
loadFails(slot) == FALSE

\* the mapping loadNivelCache returns at time t
loadNivelCache(slot, t) ==
  IF slot.kind # "object" THEN EmptyCache
  ELSE [k \in { x \in DOMAIN slot.data : ~expired(slot.data[x], t) } |-> slot.data[k]]

\* let changed of loadNivelCache
loadChanged(slot, t) ==
  slot.kind = "object" /\ \E k \in DOMAIN slot.data : expired(slot.data[k], t)

\* (mutant) the entry's level is taken whatever the row holds
hydrateRowOverwrites(r, cache) ==
  LET k == normCode(r.Especialidad)
  IN  IF k \in DOMAIN cache /\ Truthy(cache[k].nivel)
        THEN [r EXCEPT !.Nivel = cache[k].nivel] ELSE r

\* (mutant) a record without a usable entry gets the URL of its own code
hydrateRowFillsUrl(r, cache) ==
  LET k == normCode(r.Especialidad)
  IN  IF k \in DOMAIN cache /\ Truthy(cache[k].nivel)
        THEN [r EXCEPT !.Nivel = OrElse(r.Nivel, cache[k].nivel),
                       !.SEPE_URL = OrElse(r.SEPE_URL,
                                           OrElse(cache[k].sepe_url, makeUrl(r.Especialidad)))]
        ELSE [r EXCEPT !.SEPE_URL = OrElse(r.SEPE_URL, makeUrl(r.Especialidad))]

hydrateRow(r, cache) ==
  LET k == normCode(r.Especialidad)
  IN  IF k \in DOMAIN cache /\ Truthy(cache[k].nivel)
        THEN [r EXCEPT !.Nivel = OrElse(r.Nivel, cache[k].nivel),
                       !.SEPE_URL = OrElse(r.SEPE_URL,
                                           OrElse(cache[k].sepe_url, makeUrl(r.Especialidad)))]
        ELSE r

hydrateNivelFromCache(rs, cache) == [i \in 1..Len(rs) |-> hydrateRow(rs[i], cache)]

\* ----------------------------------------------------------------- derived

\* const filtered: of the filters only the free-text search is modelled, and
\* of the fields it reads only Especialidad.
Visible(r) ==
  \/ ~Truthy(trim(search))
  \/ includes(toLowerCase(OrElse(r.Especialidad, EMPTY)), toLowerCase(search))

filtered == SelectSeq(rows, Visible)

IsSelected(r) == r.RowId \in selectedRowIds

InFlight == { i \in 1..Len(status) : status[i] = "inflight" }

\* (mutant) pLimit returns without awaiting Promise.all(executing)
promiseAllSkipped(exec, st) == TRUE

\* await Promise.all(executing): every promise of the array is settled
promiseAllResolved(exec, st) == \A p \in 1..Len(exec) : st[exec[p]] = "done"

\* no function is being applied on its own
NoValue == <<>>

NoSource == [handler |-> "none", kind |-> "none", data |-> <<>>]

\* no load is awaiting its source
NoLoad == [pending |-> FALSE, nivelCache |-> EmptyCache, source |-> NoSource]

\* The run is suspended at an await (or there is none): events may be handled.
Suspended ==
  \/ pc = "idle"
  \/ pc = "race"
  \/ pc = "all" /\ ~promiseAllResolved(executing, status)

\* A user event is handled: the component is mounted and no macrotask runs.
UserMayAct == mounted /\ Suspended

\* a state setter called after the teardown has no effect
setState(new, old) == IF mounted THEN new ELSE old

Init ==
  /\ rows = <<>>
  /\ selectedRowIds = {}
  /\ nivelCache = EmptyCache
  /\ storage = saveNivelCache(EmptyCache)
  /\ apiBase = EMPTY
  /\ search = EMPTY
  /\ loadingNivel = FALSE
  /\ clock = 0
  /\ mounted = TRUE
  /\ pendingLoad = NoLoad
  /\ input = NoValue
  /\ output = NoValue
  /\ alert = ""
  /\ pc = "idle"
  /\ now = 0
  /\ selected = {}
  /\ toFetch = <<>>
  /\ cachedRows = <<>>
  /\ nextTask = 1
  /\ status = <<>>
  /\ executing = <<>>
  /\ results = <<>>

\* --------------------------------------------------------------- ingestion

\* (mutant) the new batch is appended to the old one
mergeBatch(old, new) == old \o new

\* setRows(hydrated): the state is set to a value, not to a function of the
\* previous one
replaceBatch(old, new) == new

\* (mutant) the handlers do not reset the selection
InstallHydratedKeepsSelection(mapped, cache) ==
  /\ rows' = setState(replaceBatch(rows, hydrateNivelFromCache(mapped, cache)), rows)
  /\ search' = setState(EMPTY, search)
  /\ alert' = ""
  /\ UNCHANGED << selectedRowIds, nivelCache, storage, apiBase, loadingNivel, clock, mounted >>
  /\ UNCHANGED runVars

\* Both handlers end with the same resets; of the filters only search is
\* state.  cache is the nivelCache of the render whose handler is running.
InstallHydrated(mapped, cache) ==
  /\ rows' = setState(replaceBatch(rows, hydrateNivelFromCache(mapped, cache)), rows)
  /\ search' = setState(EMPTY, search)
  /\ selectedRowIds' = setState({}, selectedRowIds)
  /\ alert' = ""
  /\ UNCHANGED << nivelCache, storage, apiBase, loadingNivel, clock, mounted >>
  /\ UNCHANGED runVars

\* the source is there at once: the handler runs in the render of the click
InstallBatch(mapped) ==
  /\ InstallHydrated(mapped, nivelCache)
  /\ UNCHANGED << pendingLoad, input, output >>

jsonCourse(r, t, i) ==
  Course(RowIdOf("feed", t, i),
         Coalesce(r.Eespecialidad, Coalesce(r.Especialidad, EMPTY)),
         Coalesce(r.Nivel, EMPTY),
         Coalesce(r.SEPE_URL, makeUrl(r.Especialidad)))

tabularCourse(prefix, t, cell, i) ==
  LET esp == IF Truthy(cell) THEN cell ELSE EMPTY
  IN  Course(RowIdOf(prefix, t, i), esp, EMPTY, makeUrl(esp))

\* loadMadridFeed, a .json feed
loadJsonFeed ==
  /\ UserMayAct
  /\ \E data \in SeqsUpTo(JsonRecords, MaxRows) :
       InstallBatch([i \in 1..Len(data) |-> jsonCourse(data[i], clock, i - 1)])

\* loadMadridFeed (.xlsx/.xls: feed_, .csv: csv_) and handleFile (csv_, xlsx_)
loadTabular(prefixes) ==
  /\ UserMayAct
  /\ \E prefix \in prefixes, body \in SeqsUpTo(EspValues, MaxRows) :
       InstallBatch([i \in 1..Len(body) |-> tabularCourse(prefix, clock, body[i], i - 1)])

\* loadMadridFeed or handleFile is called and awaits its source (fetch,
\* res.blob, file.text): the handler keeps the nivelCache of its render
loadRequested ==
  /\ UserMayAct
  /\ ~pendingLoad.pending
  /\ pendingLoad' = [pending |-> TRUE, nivelCache |-> nivelCache, source |-> NoSource]
  /\ UNCHANGED << input, output >>
  /\ alert' = ""
  /\ UNCHANGED << rows, selectedRowIds, nivelCache, storage, apiBase, search, loadingNivel,
                  clock, mounted >>
  /\ UNCHANGED runVars

\* the awaited source arrives and the handler resumes
loadArrives(prefixes) ==
  /\ pendingLoad.pending
  /\ Suspended
  /\ \E prefix \in prefixes, body \in SeqsUpTo(EspValues, MaxRows) :
       InstallHydrated([i \in 1..Len(body) |-> tabularCourse(prefix, clock, body[i], i - 1)],
                       pendingLoad.nivelCache)
  /\ pendingLoad' = NoLoad
  /\ UNCHANGED << input, output >>

\* the source cannot be fetched or read: the catch block of loadMadridFeed
loadRejected ==
  /\ pendingLoad.pending
  /\ Suspended
  /\ pendingLoad' = NoLoad
  /\ UNCHANGED << input, output >>
  /\ alert' = "No pude cargar el feed"
  /\ UNCHANGED << rows, selectedRowIds, nivelCache, storage, apiBase, search, loadingNivel,
                  clock, mounted >>
  /\ UNCHANGED runVars

\* ------------------------------------------------- ingestion of a source

\* an element null of a JSON array
JsonNull == [isNull |-> TRUE]

IsNull(r) == "isNull" \in DOMAIN r

\* the header row of a table
HeaderRow == <<"Especialidad">>

\* Tables of a workbook or of a delimited text: no row at all, or the header
\* row and up to MaxRows data rows, given by their Especialidad cell (NULL:
\* the cell is absent).
Tables ==
  { <<>> } \cup { <<HeaderRow>> \o body : body \in SeqsUpTo(EspValues \cup {NULL}, MaxRows) }

\* What a load can be given.  handler: loadMadridFeed ("feed") or handleFile
\* ("file").  kind: the fetch answers with a failure status ("http-error"),
\* the extension is none of the supported ones ("unsupported"), the workbook
\* cannot be read ("corrupt"), the body of a .json feed is not a JSON array
\* ("not-json"), or the source is a JSON array, a workbook or a delimited
\* text.
IngestSources ==
  { [handler |-> "feed", kind |-> k, data |-> <<>>] :
      k \in {"http-error", "unsupported", "corrupt", "not-json"} }
    \cup { [handler |-> "file", kind |-> k, data |-> <<>>] : k \in {"unsupported", "corrupt"} }
    \cup { [handler |-> "feed", kind |-> "json", data |-> d] :
             d \in SeqsUpTo(JsonRecords \cup {JsonNull}, MaxRows) }
    \cup { [handler |-> h, kind |-> k, data |-> t] :
             h \in {"feed", "file"}, k \in {"xlsx", "csv"}, t \in Tables }

\* the data rows of a table: table.slice(1), and parsed.data of Papa.parse
\* with header: true
tableBody(t) == IF t = <<>> THEN <<>> ELSE Tail(t)

\* (mutant) a table of the header row alone is refused as an empty one is
ingestThrowsHeaderOnly(src) ==
  \/ src.kind \in {"http-error", "unsupported", "corrupt", "not-json"}
  \/ src.kind = "json" /\ \E i \in 1..Len(src.data) : IsNull(src.data[i])
  \/ src.handler = "feed" /\ src.kind = "xlsx" /\ Len(src.data) < 2
  \/ src.kind = "json" /\ src.data = <<>>

\* The handler throws: !res.ok, the final else, a rejected readXlsxFile or
\* res.json(), r.Codigo of a null element, and "Excel vacío" of the feed.
ingestThrows(src) ==
  \/ src.kind \in {"http-error", "unsupported", "corrupt", "not-json"}
  \/ src.kind = "json" /\ \E i \in 1..Len(src.data) : IsNull(src.data[i])
  \/ src.handler = "feed" /\ src.kind = "xlsx" /\ src.data = <<>>

\* if (!arows.length) return; of handleFile
ingestReturns(src) == src.handler = "file" /\ src.kind = "xlsx" /\ src.data = <<>>

\* the RowId prefix of each branch
prefixOf(src) ==
  IF src.kind = "csv" THEN "csv" ELSE IF src.handler = "file" THEN "xlsx" ELSE "feed"

\* const mapped of each branch
mappedFrom(src, t) ==
  IF src.kind = "json"
    THEN [i \in 1..Len(src.data) |-> jsonCourse(src.data[i], t, i - 1)]
    ELSE [i \in 1..Len(tableBody(src.data)) |->
            tabularCourse(prefixOf(src), t, tableBody(src.data)[i], i - 1)]

\* loadMadridFeed or handleFile is called with a source
sourceRequested ==
  /\ UserMayAct
  /\ ~pendingLoad.pending
  /\ \E src \in IngestSources :
       pendingLoad' = [pending |-> TRUE, nivelCache |-> nivelCache, source |-> src]
  /\ alert' = ""
  /\ UNCHANGED << rows, selectedRowIds, nivelCache, storage, apiBase, search, loadingNivel,
                  clock, mounted, input, output >>
  /\ UNCHANGED runVars

\* the source is there and the rest of the handler runs: the batch is
\* installed, or the handler throws (loadMadridFeed catches and alerts,
\* handleFile's promise rejects) or returns
sourceArrives ==
  /\ pendingLoad.pending
  /\ Suspended
  /\ LET src == pendingLoad.source
     IN  IF ingestThrows(src) \/ ingestReturns(src)
           THEN /\ alert' = IF ingestThrows(src) /\ src.handler = "feed"
                              THEN "No pude cargar el feed" ELSE ""
                /\ UNCHANGED << rows, selectedRowIds, nivelCache, storage, apiBase, search,
                                loadingNivel, clock, mounted >>
                /\ UNCHANGED runVars
           ELSE InstallHydrated(mappedFrom(src, clock), pendingLoad.nivelCache)
  /\ pendingLoad' = [pendingLoad EXCEPT !.pending = FALSE]
  /\ UNCHANGED << input, output >>

\* ------------------------------------------------------------- user events

\* (mutant) the patch holds the new Especialidad only
onBlurPatchKeepsUrl(r, value) == [r EXCEPT !.Especialidad = value]

\* { ...r, Especialidad: value, SEPE_URL: makeUrl(value) }
onBlurPatch(r, value) == [r EXCEPT !.Especialidad = value, !.SEPE_URL = makeUrl(value)]

\* updateRow from the Especialidad cell's onBlur
updateRow ==
  /\ UserMayAct
  /\ \E i \in 1..Len(rows), value \in EspValues :
       /\ Visible(rows[i])
       /\ rows' = [j \in 1..Len(rows) |->
                     IF rows[j].RowId = rows[i].RowId
                       THEN onBlurPatch(rows[j], value)
                       ELSE rows[j]]
  /\ alert' = ""
  /\ UNCHANGED << selectedRowIds, nivelCache, storage, apiBase, search, loadingNivel, clock, mounted, pendingLoad, input, output >>
  /\ UNCHANGED runVars

\* the selection checkbox of a displayed row
toggleSelect ==
  /\ UserMayAct
  /\ \E i \in 1..Len(rows), checked \in BOOLEAN :
       /\ Visible(rows[i])
       /\ selectedRowIds' = IF checked THEN selectedRowIds \cup {rows[i].RowId}
                                       ELSE selectedRowIds \ {rows[i].RowId}
  /\ alert' = ""
  /\ UNCHANGED << rows, nivelCache, storage, apiBase, search, loadingNivel, clock, mounted, pendingLoad, input, output >>
  /\ UNCHANGED runVars

setApiBase ==
  /\ UserMayAct
  /\ \E v \in ApiBases : apiBase' = v
  /\ alert' = ""
  /\ UNCHANGED << rows, selectedRowIds, nivelCache, storage, search, loadingNivel, clock, mounted, pendingLoad, input, output >>
  /\ UNCHANGED runVars

setSearch ==
  /\ UserMayAct
  /\ \E q \in Searches : search' = q
  /\ alert' = ""
  /\ UNCHANGED << rows, selectedRowIds, nivelCache, storage, apiBase, loadingNivel, clock, mounted, pendingLoad, input, output >>
  /\ UNCHANGED runVars

\* the Clear Cache button; the effect on [nivelCache] then saves the empty mapping
clearCache ==
  /\ UserMayAct
  /\ nivelCache' = EmptyCache
  /\ storage' = saveNivelCache(EmptyCache)
  /\ alert' = "Cache cleared"
  /\ UNCHANGED << rows, selectedRowIds, apiBase, search, loadingNivel, clock, mounted, pendingLoad, input, output >>
  /\ UNCHANGED runVars

\* The component is torn down (the page is left, the root is unmounted) while
\* no macrotask runs.  A run that is awaiting its lookups goes on.
teardown ==
  /\ mounted
  /\ Suspended
  /\ mounted' = FALSE
  /\ alert' = ""
  /\ UNCHANGED << rows, selectedRowIds, nivelCache, storage, apiBase, search, loadingNivel,
                  clock, pendingLoad, input, output >>
  /\ UNCHANGED runVars

\* ------------------------------------------------------------ construction

\* Contents of the durable slot when the page is opened: no mapping, or a
\* mapping of up to three codes whose ts is 0 (falsy), a text that is not a
\* number, or one of three days.
StoredSlots ==
  LET StoredKeys == { <<"A">>, <<"B">>, <<"C">> }
      StoredTs == { 0, NOT_A_NUMBER, 1, 20, 200 }
      StoredEntry(ts) == [nivel |-> <<"2">>, sepe_url |-> EMPTY, ts |-> ts]
      StoredObjects ==
        UNION { [K -> { StoredEntry(ts) : ts \in StoredTs }] : K \in SUBSET StoredKeys }
  IN  { [kind |-> k, data |-> EmptyCache] :
          k \in {"absent", "denied", "empty", "garbage", "null"} }
        \cup { [kind |-> "object", data |-> d] : d \in StoredObjects }

\* Date.now() when the page is opened, in days: ages of 180 days (181 - 1 and
\* 200 - 20), of more (381 - 200), and a ts in the future (181 - 200).
BootClocks == { 181, 200, 381 }

\* The state in which the component is constructed.
InitBoot ==
  /\ rows = <<>>
  /\ selectedRowIds = {}
  /\ nivelCache = EmptyCache
  /\ storage \in StoredSlots
  /\ apiBase = EMPTY
  /\ search = EMPTY
  /\ loadingNivel = FALSE
  /\ clock \in BootClocks
  /\ mounted = TRUE
  /\ pendingLoad = NoLoad
  /\ input = NoValue
  /\ output = NoValue
  /\ alert = ""
  /\ pc = "boot"
  /\ now = 0
  /\ selected = {}
  /\ toFetch = <<>>
  /\ cachedRows = <<>>
  /\ nextTask = 1
  /\ status = <<>>
  /\ executing = <<>>
  /\ results = <<>>

\* useState(() => loadNivelCache()) in the first render: the mapping is read
\* and, if entries were dropped, written back (capacity cap; writes: the
\* outcomes setItem can have).  An exception would leave nothing mounted.
initNivelCache(cap, writes) ==
  /\ pc = "boot"
  /\ IF loadFails(storage)
       THEN /\ mounted' = FALSE
            /\ pc' = "idle"
            /\ alert' = "Uncaught error"
            /\ UNCHANGED << nivelCache, storage >>
       ELSE /\ nivelCache' = loadNivelCache(storage, clock)
            /\ \E ok \in writes, data \in persistedMappings(loadNivelCache(storage, clock), cap) :
                 storage' = IF loadChanged(storage, clock)
                              THEN writeSlot(storage, data, ok) ELSE storage
            /\ pc' = "effect"
            /\ alert' = ""
            /\ UNCHANGED mounted
  /\ UNCHANGED << rows, selectedRowIds, apiBase, search, loadingNivel, clock, pendingLoad, input, output >>
  /\ UNCHANGED << now, selected, toFetch, cachedRows, nextTask, status, executing, results >>

\* useEffect(() => saveNivelCache(nivelCache), [nivelCache]) after the first
\* render
saveEffect(cap, writes) ==
  /\ pc = "effect"
  /\ \E ok \in writes, data \in persistedMappings(nivelCache, cap) :
       storage' = writeSlot(storage, data, ok)
  /\ pc' = "idle"
  /\ alert' = ""
  /\ UNCHANGED << rows, selectedRowIds, nivelCache, apiBase, search, loadingNivel, clock,
                  mounted, pendingLoad, input, output >>
  /\ UNCHANGED << now, selected, toFetch, cachedRows, nextTask, status, executing, results >>

\* The page is opened on any content of the durable slot; a write may fail.
NextBoot ==
  \/ initNivelCache(NIVEL_CACHE_MAX, BOOLEAN)
  \/ saveEffect(NIVEL_CACHE_MAX, BOOLEAN)

SpecBoot == InitBoot /\ [][NextBoot]_vars

\* The same with a slot of capacity MaxKept, every write succeeding.
NextSave ==
  \/ initNivelCache(MaxKept, {TRUE})
  \/ saveEffect(MaxKept, {TRUE})

SpecSave == InitBoot /\ [][NextSave]_vars

\* ---------------------------------------------------------- enrichment run

\* pLimit(4, tasks)
CONCURRENCY == 4

\* (mutant) the guard on the endpoint is missing
fetchGuardNoEndpoint(sel, api) ==
  IF Len(sel) = 0 THEN "Selecciona una o mas filas" ELSE "run"

\* the two guards before setLoadingNivel(true)
fetchGuard(sel, api) ==
  IF Len(sel) = 0 THEN "Selecciona una o mas filas"
  ELSE IF ~Truthy(api) THEN "Configura un endpoint API"
  ELSE "run"

\* entry?.nivel && entry.nivel.trim()
isCacheHit(code, cache) ==
  /\ code \in DOMAIN cache
  /\ Truthy(cache[code].nivel)
  /\ Truthy(trim(cache[code].nivel))

\* (mutant) Step 1 without the branch for an empty code
goesToCachedHitsOnly(row, cache) == isCacheHit(normCode(row.Especialidad), cache)

\* Step 1, the branches that push to cachedRows
goesToCached(row, cache) ==
  LET code == normCode(row.Especialidad)
  IN  code = EMPTY \/ isCacheHit(code, cache)

\* (mutant) the cached level is not copied to the row
cachedCopyKeepsRow(row, cache) == row

cachedCopy(row, cache) ==
  LET code == normCode(row.Especialidad)
  IN  IF code = EMPTY
        THEN [row EXCEPT !.Nivel = OrElse(row.Nivel, EMPTY),
                         !.SEPE_URL = OrElse(row.SEPE_URL, makeUrl(row.Especialidad))]
        ELSE [row EXCEPT !.Nivel = OrElse(row.Nivel, cache[code].nivel),
                         !.SEPE_URL = OrElse(row.SEPE_URL,
                                             OrElse(cache[code].sepe_url, makeUrl(row.Especialidad)))]

partitionCached(sel, cache) ==
  LET hit(row) == goesToCached(row, cache)
      hits == SelectSeq(sel, hit)
  IN  [i \in 1..Len(hits) |-> cachedCopy(hits[i], cache)]

\* (mutant) Step 1 pushes one record per normalized code to toFetch
partitionToFetchOnePerCode(sel, cache) ==
  LET miss(row) == ~goesToCached(row, cache)
      misses == SelectSeq(sel, miss)
      first == { i \in 1..Len(misses) :
                   \A k \in 1..(i - 1) :
                     normCode(misses[k].Especialidad) # normCode(misses[i].Especialidad) }
      pick(n) == CHOOSE i \in first : Cardinality({ k \in first : k < i }) = n - 1
  IN  [n \in 1..Cardinality(first) |->
         [RowId |-> misses[pick(n)].RowId, Especialidad |-> misses[pick(n)].Especialidad]]

partitionToFetch(sel, cache) ==
  LET miss(row) == ~goesToCached(row, cache)
      misses == SelectSeq(sel, miss)
  IN  [i \in 1..Len(misses) |->
         [RowId |-> misses[i].RowId, Especialidad |-> misses[i].Especialidad]]

\* (mutant) Step 2 is not taken
applyCachedSkipped(prev, cached) == prev

\* Step 2: prev.map((r) => cachedRows.find((c) => c.RowId === r.RowId) || r)
applyCached(prev, cached) ==
  [j \in 1..Len(prev) |->
     LET found == { k \in 1..Len(cached) : cached[k].RowId = prev[j].RowId }
     IN  IF found = {} THEN prev[j]
         ELSE cached[CHOOSE k \in found : \A m \in found : k <= m]]

\* Step 3: the rows unchecked on the early exit
uncheckCached(prev, cached) ==
  prev \ { cached[k].RowId : k \in { m \in 1..Len(cached) : Truthy(trim(cached[m].Nivel)) } }

\* a task's answer for a response of the endpoint
lookupOk(resp) == resp.ok /\ resp.nivel # NULL

\* (mutant) the lookup's failure is not caught inside the task
taskThrowsOnFailure(row, resp) == ~lookupOk(resp)

\* whether the task rejects: the try/catch around the lookup catches every failure
taskThrows(row, resp) == FALSE

taskResult(row, resp) ==
  LET code == normCode(row.Especialidad)
  IN  IF lookupOk(resp)
        THEN [id |-> row.RowId, nivel |-> OrElse(resp.nivel, EMPTY),
              sepe_url |-> OrElse(resp.sepe_url, makeUrl(code))]
        ELSE [id |-> row.RowId, nivel |-> EMPTY, sepe_url |-> makeUrl(row.Especialidad)]

\* (mutant) an entry already in the mapping is kept: the first write wins
cacheAfterLookupFirstWins(prev, row, resp, ts) ==
  LET code == normCode(row.Especialidad)
      r == taskResult(row, resp)
  IN  IF lookupOk(resp) /\ code \notin DOMAIN prev
        THEN CachePut(prev, code, [nivel |-> r.nivel, sepe_url |-> r.sepe_url, ts |-> ts])
        ELSE prev

\* (mutant) the updater does not spread prev
cacheAfterLookupNoSpread(prev, row, resp, ts) ==
  LET code == normCode(row.Especialidad)
      r == taskResult(row, resp)
  IN  IF lookupOk(resp)
        THEN CachePut(EmptyCache, code, [nivel |-> r.nivel, sepe_url |-> r.sepe_url, ts |-> ts])
        ELSE prev

\* setNivelCache((prev) => ({ ...prev, [code]: { nivel, sepe_url, ts: now } }))
cacheAfterLookup(prev, row, resp, ts) ==
  LET code == normCode(row.Especialidad)
      r == taskResult(row, resp)
  IN  IF lookupOk(resp)
        THEN CachePut(prev, code, [nivel |-> r.nivel, sepe_url |-> r.sepe_url, ts |-> ts])
        ELSE prev

\* "status" in (executing[i] as any): a Promise has no such property
hasStatus(p, st) == FALSE

\* (mutant) the race never suspends the loop
racePendingNever(exec, st) == FALSE

\* await Promise.race(executing) suspends: no promise of the array is settled
racePending(exec, st) == \A p \in 1..Len(exec) : st[exec[p]] # "done"

\* the splice loop after the race
cleanupExecuting(exec, st) ==
  LET keep(p) == ~hasStatus(p, st)
  IN  SelectSeq(exec, keep)

\* new Map(results.map((r) => [r.id, r])): the last result of an id wins
mapHas(res, id) == \E k \in 1..Len(res) : res[k].id = id

mapGet(res, id) ==
  res[CHOOSE k \in 1..Len(res) :
        /\ res[k].id = id
        /\ \A m \in 1..Len(res) : res[m].id = id => m <= k]

\* (mutant) Step 5 writes the last result to every record of the batch
applyResultsToAll(prev, res) ==
  [j \in 1..Len(prev) |->
     IF Len(res) > 0
       THEN [prev[j] EXCEPT !.Nivel = res[Len(res)].nivel,
                            !.SEPE_URL = OrElse(res[Len(res)].sepe_url,
                                                makeUrl(prev[j].Especialidad))]
       ELSE prev[j]]

\* Step 5
applyResults(prev, res) ==
  [j \in 1..Len(prev) |->
     IF mapHas(res, prev[j].RowId)
       THEN [prev[j] EXCEPT !.Nivel = mapGet(res, prev[j].RowId).nivel,
                            !.SEPE_URL = OrElse(mapGet(res, prev[j].RowId).sepe_url,
                                                makeUrl(prev[j].Especialidad))]
       ELSE prev[j]]

\* Step 6
uncheckFetched(prev, fetched, res) ==
  prev \ { fetched[k].RowId :
             k \in { m \in 1..Len(fetched) :
                       /\ mapHas(res, fetched[m].RowId)
                       /\ Truthy(trim(mapGet(res, fetched[m].RowId).nivel)) } }

RunReset ==
  /\ pc' = "idle"
  /\ now' = 0
  /\ selected' = {}
  /\ toFetch' = <<>>
  /\ cachedRows' = <<>>
  /\ nextTask' = 1
  /\ status' = <<>>
  /\ executing' = <<>>
  /\ results' = <<>>

\* (mutant) the click does not call setLoadingNivel(true)
fetchNivelForSelectedNoFlag ==
  /\ pc = "idle"
  /\ mounted
  /\ ~loadingNivel
  /\ LET sel == SelectSeq(filtered, IsSelected)
         guard == fetchGuard(sel, apiBase)
     IN  IF guard # "run"
           THEN /\ alert' = guard
                /\ UNCHANGED appVars
                /\ UNCHANGED runVars
           ELSE /\ alert' = ""
                /\ pc' = "step2"
                /\ now' = clock
                /\ selected' = { sel[k].RowId : k \in 1..Len(sel) }
                /\ toFetch' = partitionToFetch(sel, nivelCache)
                /\ cachedRows' = partitionCached(sel, nivelCache)
                /\ UNCHANGED << rows, selectedRowIds, nivelCache, storage, apiBase, search, loadingNivel, clock, mounted, pendingLoad, input, output >>
                /\ UNCHANGED << nextTask, status, executing, results >>

\* The click on the fetch button (disabled while loadingNivel): the guards,
\* setLoadingNivel(true) and Step 1.
fetchNivelForSelected ==
  /\ pc = "idle"
  /\ mounted
  /\ ~loadingNivel
  /\ LET sel == SelectSeq(filtered, IsSelected)
         guard == fetchGuard(sel, apiBase)
     IN  IF guard # "run"
           THEN /\ alert' = guard
                /\ UNCHANGED appVars
                /\ UNCHANGED runVars
           ELSE /\ alert' = ""
                /\ loadingNivel' = TRUE
                /\ pc' = "step2"
                /\ now' = clock
                /\ selected' = { sel[k].RowId : k \in 1..Len(sel) }
                /\ toFetch' = partitionToFetch(sel, nivelCache)
                /\ cachedRows' = partitionCached(sel, nivelCache)
                /\ UNCHANGED << rows, selectedRowIds, nivelCache, storage, apiBase, search, clock, mounted, pendingLoad, input, output >>
                /\ UNCHANGED << nextTask, status, executing, results >>

\* Steps 2 and 3, then the tasks are built and pLimit is entered.
applyCachedStep ==
  /\ pc = "step2"
  /\ alert' = ""
  /\ rows' = IF Len(cachedRows) > 0 THEN applyCached(rows, cachedRows) ELSE rows
  /\ UNCHANGED << nivelCache, storage, apiBase, search, clock, mounted, pendingLoad, input, output >>
  /\ IF Len(toFetch) = 0
       THEN /\ selectedRowIds' = uncheckCached(selectedRowIds, cachedRows)
            /\ loadingNivel' = FALSE
            /\ RunReset
       ELSE /\ UNCHANGED << selectedRowIds, loadingNivel >>
            /\ pc' = "loop"
            /\ cachedRows' = <<>>
            /\ nextTask' = 1
            /\ status' = [i \in 1..Len(toFetch) |-> "queued"]
            /\ executing' = <<>>
            /\ results' = <<>>
            /\ UNCHANGED << now, selected, toFetch >>

\* One iteration of pLimit's for loop: the task is called (its lookup is
\* dispatched), its promise pushed, and the loop either awaits the race or
\* goes on.
pLimitIter ==
  /\ pc = "loop"
  /\ LET i == nextTask
         row == toFetch[i]
         immediate == normCode(row.Especialidad) = EMPTY
         st == [status EXCEPT ![i] = IF immediate THEN "done" ELSE "inflight"]
         exec == Append(executing, i)
         waits == Len(exec) >= CONCURRENCY /\ racePending(exec, st)
     IN  /\ status' = st
         /\ results' = IF immediate
                         THEN Append(results, [id |-> row.RowId, nivel |-> EMPTY,
                                               sepe_url |-> makeUrl(row.Especialidad)])
                         ELSE results
         /\ nextTask' = i + 1
         /\ IF waits
              THEN /\ pc' = "race"
                   /\ executing' = exec
              ELSE /\ pc' = IF i = Len(toFetch) THEN "all" ELSE "loop"
                   /\ executing' = cleanupExecuting(exec, st)
  /\ alert' = ""
  /\ UNCHANGED appVars
  /\ UNCHANGED << now, selected, toFetch, cachedRows >>

\* (mutant) saveNivelCache without its try/catch
saveThrowsUncaught(ok) == ~ok

\* whether saveNivelCache throws when setItem does (ok = FALSE): its
\* try/catch swallows every exception
saveThrows(ok) == FALSE

\* A lookup in flight is answered: the rest of its task runs, its result is
\* pushed, and a pLimit waiting in the race resumes.  The effect on
\* nivelCache saves the new mapping; ok is whether setItem succeeds.  An
\* exception out of the effect would leave nothing mounted.
completeWrite(i, resp, ok) ==
  /\ pc \in {"race", "all"}
  /\ i \in InFlight
  /\ IF taskThrows(toFetch[i], resp)
       THEN \* pLimit rejects: the catch and finally blocks of the run
            /\ alert' = "Error al obtener niveles"
            /\ loadingNivel' = setState(FALSE, loadingNivel)
            /\ RunReset
            /\ UNCHANGED << rows, selectedRowIds, nivelCache, storage, apiBase, search, clock, mounted, pendingLoad, input, output >>
       ELSE LET st == [status EXCEPT ![i] = "done"]
            IN  /\ alert' = IF mounted /\ saveThrows(ok) THEN "Uncaught error" ELSE ""
                /\ nivelCache' = setState(cacheAfterLookup(nivelCache, toFetch[i], resp, now),
                                          nivelCache)
                /\ storage' = setState(IF ok THEN saveNivelCache(cacheAfterLookup(nivelCache, toFetch[i], resp, now))
                                             ELSE storage,
                                       storage)
                /\ mounted' = (mounted /\ ~saveThrows(ok))
                /\ results' = Append(results, taskResult(toFetch[i], resp))
                /\ status' = st
                /\ IF pc = "race"
                     THEN /\ pc' = IF nextTask > Len(toFetch) THEN "all" ELSE "loop"
                          /\ executing' = cleanupExecuting(executing, st)
                     ELSE UNCHANGED << pc, executing >>
                /\ UNCHANGED << rows, selectedRowIds, apiBase, search, loadingNivel, clock, pendingLoad, input, output >>
                /\ UNCHANGED << now, selected, toFetch, cachedRows, nextTask >>

\* the same with every write succeeding
completeWith(i, resp) == completeWrite(i, resp, TRUE)

complete(responses) == \E i \in InFlight, resp \in responses : completeWith(i, resp)

\* Promise.all resolves: Steps 5 and 6 and the finally block.
finishRun ==
  /\ pc = "all"
  /\ promiseAllResolved(executing, status)
  /\ rows' = setState(applyResults(rows, results), rows)
  /\ selectedRowIds' = setState(uncheckFetched(selectedRowIds, toFetch, results), selectedRowIds)
  /\ loadingNivel' = setState(FALSE, loadingNivel)
  /\ alert' = ""
  /\ RunReset
  /\ UNCHANGED << nivelCache, storage, apiBase, search, clock, mounted, pendingLoad, input, output >>

\* The session: every event of the user and of the endpoint.  Between runs the
\* user loads, edits, selects, searches and configures; while a run is awaiting
\* its lookups the user edits, selects and clears the cache.  A run reads
\* apiBase and filtered before its first await only.  No batch is replaced
\* during a run, so a RowId is only ever compared with RowIds of its own
\* batch, and the clock reading stays the same.
Next ==
  \/ pc = "idle" /\ loadJsonFeed
  \/ pc = "idle" /\ loadTabular({"feed"})
  \/ updateRow
  \/ toggleSelect
  \/ pc = "idle" /\ setApiBase
  \/ pc = "idle" /\ setSearch
  \/ clearCache
  \/ fetchNivelForSelected
  \/ applyCachedStep
  \/ pLimitIter
  \/ complete(Responses)
  \/ finishRun

Spec == Init /\ [][Next]_vars

\* The session against an endpoint that may answer with a blank level and
\* with its own URL; the rows come from a tabular feed and are not edited.
NextBlank ==
  \/ pc = "idle" /\ loadTabular({"feed"})
  \/ toggleSelect
  \/ pc = "idle" /\ setApiBase
  \/ clearCache
  \/ fetchNivelForSelected
  \/ applyCachedStep
  \/ pLimitIter
  \/ complete(BlankResponses)
  \/ finishRun

SpecBlank == Init /\ [][NextBlank]_vars

\* The session with loads that take time: a load may be requested while a
\* run awaits its lookups and arrives once the run has ended, so that a
\* RowId is only ever compared with RowIds of its own batch.
NextFeed ==
  \/ loadRequested
  \/ pc = "idle" /\ loadArrives({"feed"})
  \/ pc = "idle" /\ loadRejected
  \/ toggleSelect
  \/ pc = "idle" /\ setApiBase
  \/ fetchNivelForSelected
  \/ applyCachedStep
  \/ pLimitIter
  \/ complete(Responses)
  \/ finishRun

SpecFeed == Init /\ [][NextFeed]_vars

\* ------------------------------------------------- loads as time passes

MaxClock == 2

\* Date.now() advances between two events, or does not: its readings are
\* whole milliseconds
tick ==
  /\ Suspended
  /\ clock < MaxClock
  /\ clock' = clock + 1
  /\ alert' = ""
  /\ UNCHANGED << rows, selectedRowIds, nivelCache, storage, apiBase, search, loadingNivel,
                  mounted, pendingLoad, input, output >>
  /\ UNCHANGED runVars

\* Feeds and files of every kind are loaded one after the other.
NextReload ==
  \/ tick
  \/ loadJsonFeed
  \/ loadTabular(Prefixes)

SpecReload == Init /\ [][NextReload]_vars

\* Sources of every kind are loaded over a batch with a selection and a
\* search.
NextIngest ==
  \/ pc = "idle" /\ sourceRequested
  \/ pc = "idle" /\ sourceArrives
  \/ pc = "idle" /\ toggleSelect
  \/ pc = "idle" /\ setSearch

SpecIngest == Init /\ [][NextIngest]_vars

\* ------------------------------------------- functions applied on their own

\* The component at rest, and a function about to be called with one of
\* inputs.
InitCall(inputs) ==
  /\ rows = <<>>
  /\ selectedRowIds = {}
  /\ nivelCache = EmptyCache
  /\ storage = saveNivelCache(EmptyCache)
  /\ apiBase = EMPTY
  /\ search = EMPTY
  /\ loadingNivel = FALSE
  /\ clock = 0
  /\ mounted = TRUE
  /\ pendingLoad = NoLoad
  /\ input \in inputs
  /\ output = NoValue
  /\ alert = ""
  /\ pc = "call"
  /\ now = 0
  /\ selected = {}
  /\ toFetch = <<>>
  /\ cachedRows = <<>>
  /\ nextTask = 1
  /\ status = <<>>
  /\ executing = <<>>
  /\ results = <<>>

\* the call returns value
Returns(value) ==
  /\ pc = "call"
  /\ output' = value
  /\ pc' = "return"
  /\ alert' = ""
  /\ UNCHANGED << rows, selectedRowIds, nivelCache, storage, apiBase, search, loadingNivel,
                  clock, mounted, pendingLoad, input >>
  /\ UNCHANGED << now, selected, toFetch, cachedRows, nextTask, status, executing, results >>

\* Field names of up to MaxKeyLen characters over the letters of "fin" in
\* both cases, with and without accent, and the blank
MaxKeyLen == 4

\* Rows given to normalizeHeaders: one field of any name, short or that of
\* a real header, recognized or not, or two fields of real headers
HeaderObjects ==
  LET ShortKeys == SeqsUpTo({"f", "F", "i", "I", "í", "n", " "}, MaxKeyLen) \ {EMPTY}
      LongKeys ==
        { <<"c", "o", "n", "s", "t", "r", "u", "c", "t", "o", "r">>,
          <<"C", "o", "n", "s", "t", "r", "u", "c", "t", "o", "r">>,
          <<"L", "o", "c", "a", "l", "i", "d", "a", "d">>,
          <<"M", "u", "n", "i", "c", "i", "p", "i", "o">>,
          <<"C", "ó", "d", "i", "g", "o">>,
          <<"C", "Ó", "D", "I", "G", "O">>,
          <<"N", "i", "v", "e", "l">>,
          <<"x">> }
  IN  { <<[k |-> k1, v |-> <<"1">>]>> : k1 \in ShortKeys \cup LongKeys }
        \cup UNION { { <<[k |-> k1, v |-> <<"1">>], [k |-> k2, v |-> <<"2">>]>> :
                         k2 \in LongKeys \ {k1} } : k1 \in LongKeys }

normalizeHeadersCall == Returns(normalizeHeaders(input))

SpecNormalize == InitCall(HeaderObjects) /\ [][normalizeHeadersCall]_vars

\* obj[name], NULL when obj has no property of that name
prop(obj, name) ==
  IF \E i \in 1..Len(obj) : obj[i].k = name
    THEN obj[CHOOSE i \in 1..Len(obj) : obj[i].k = name].v
    ELSE NULL

\* rr[name] of a normalized row
field(rr, name) == IF name \in DOMAIN rr THEN rr[name] ELSE NULL

KeyEspecialidad == <<"E", "s", "p", "e", "c", "i", "a", "l", "i", "d", "a", "d">>

KeyEespecialidad == <<"E", "e", "s", "p", "e", "c", "i", "a", "l", "i", "d", "a", "d">>

KeyNivel == <<"N", "i", "v", "e", "l">>

KeySepeUrl == <<"S", "E", "P", "E", "_", "U", "R", "L">>

\* the element r of a JSON feed as the json branch reads it: r.Eespecialidad,
\* r.Especialidad, r.Nivel and r.SEPE_URL, by these exact names
jsonElement(obj) ==
  [Eespecialidad |-> prop(obj, KeyEespecialidad),
   Especialidad |-> prop(obj, KeyEspecialidad),
   Nivel |-> prop(obj, KeyNivel),
   SEPE_URL |-> prop(obj, KeySepeUrl)]

\* the same row as the tabular branches read it: rr.Especialidad of
\* normalizeHeaders(row)
tabularCell(obj) == field(normalizeHeaders(obj), KeyEspecialidad)

\* Names of the fields of a source row: Especialidad as the map spells it,
\* in lower case and with blanks, the feed's Eespecialidad, and a name the
\* map does not hold
ElementObjects ==
  LET ElementKeys ==
        { KeyEspecialidad,
          <<"e", "s", "p", "e", "c", "i", "a", "l", "i", "d", "a", "d">>,
          <<" ", "E", "s", "p", "e", "c", "i", "a", "l", "i", "d", "a", "d", " ">>,
          KeyEespecialidad,
          KeyNivel,
          <<"x">> }
  IN  { <<[k |-> k1, v |-> v1]>> : k1 \in ElementKeys, v1 \in EspValues }
        \cup UNION { { <<[k |-> k1, v |-> v1], [k |-> k2, v |-> v2]>> :
                         k2 \in ElementKeys \ {k1}, v1 \in EspValues, v2 \in EspValues } :
                     k1 \in ElementKeys }

\* one row is mapped by the json branch and by a tabular branch
mapRowCall ==
  Returns([json |-> jsonCourse(jsonElement(input), clock, 0),
           tabular |-> tabularCourse("feed", clock, tabularCell(input), 0)])

SpecMapRow == InitCall(ElementObjects) /\ [][mapRowCall]_vars

\* ------------------------------------------------------- export to csv

QUOTE == "\""

\* s.replace(/"/g, '""')
RECURSIVE doubleQuotes(_)
doubleQuotes(s) ==
  IF s = EMPTY THEN EMPTY
  ELSE (IF Head(s) = QUOTE THEN <<QUOTE, QUOTE>> ELSE <<Head(s)>>) \o doubleQuotes(Tail(s))

\* const esc of toCSV
esc(s) == <<QUOTE>> \o doubleQuotes(Coalesce(s, EMPTY)) \o <<QUOTE>>

\* the inside of a quoted field as Papa.parse reads it: a doubled quote is
\* one quote
RECURSIVE undoubleQuotes(_)
undoubleQuotes(s) ==
  IF s = EMPTY THEN EMPTY
  ELSE IF Len(s) >= 2 /\ s[1] = QUOTE /\ s[2] = QUOTE
         THEN <<QUOTE>> \o undoubleQuotes(Tail(Tail(s)))
         ELSE <<Head(s)>> \o undoubleQuotes(Tail(s))

\* a field of a line as Papa.parse reads it
parseField(f) ==
  IF Len(f) >= 2 /\ f[1] = QUOTE /\ f[Len(f)] = QUOTE
    THEN undoubleQuotes(SubSeq(f, 2, Len(f) - 1))
    ELSE f

\* const headers of toCSV, of which the columns of the modelled fields
csvHeaders == <<KeyEspecialidad, KeyNivel, KeySepeUrl>>

\* toCSV(rows), as its lines and their fields: every field is quoted, so the
\* commas and line breaks that join them are the only ones outside quotes.
\* Without rows the body is the empty text, one empty line.
toCSV(rs) ==
  <<csvHeaders>> \o
    (IF rs = <<>> THEN << <<>> >>
     ELSE [i \in 1..Len(rs) |-> <<esc(rs[i].Especialidad), esc(rs[i].Nivel), esc(rs[i].SEPE_URL)>>])

\* Papa.parse(text, { header: true, skipEmptyLines: true }).data
papaParse(lines) ==
  LET header == lines[1]
      data == SelectSeq(Tail(lines), LAMBDA line : line # <<>>)
  IN  [i \in 1..Len(data) |->
         [j \in 1..Len(header) |-> [k |-> header[j], v |-> parseField(data[i][j])]]]

\* the csv branch of handleFile on the text of a file
ingestCsv(lines, t) ==
  LET parsed == papaParse(lines)
  IN  [i \in 1..Len(parsed) |-> tabularCourse("csv", t, tabularCell(parsed[i]), i - 1)]

\* The fields of an exported record: a code with a quote and a comma among
\* them, the level missing, empty or populated
ExportBatches ==
  LET ExportFields ==
        [esp : EspValues \cup { <<"a", QUOTE, ",">> }, nivel : { NULL, EMPTY, <<"2">> }]
  IN  UNION { { [i \in 1..n |-> Course(RowIdOf("feed", 0, i - 1), f[i].esp, f[i].nivel,
                                        makeUrl(f[i].esp))] : f \in [1..n -> ExportFields] } :
              n \in 0..MaxRows }

\* the batch is exported and the file is imported, with nothing cached
roundTripCall == Returns(hydrateNivelFromCache(ingestCsv(toCSV(input), clock), nivelCache))

SpecRoundTrip == InitCall(ExportBatches) /\ [][roundTripCall]_vars

\* ------------------------------------------------------------ categorize

\* const rules of categorize: each pattern is an alternation of literal
\* texts, given here with its character classes written out (idiomas? is
\* idioma, which every match of it contains)
categoryRules ==
  <<
  [label |-> "Administración / Ofimática",
   patterns |-> { <<"a", "u", "x", "i", "l", "i", "a", "r">>,
                 <<"a", "d", "m", "i", "n", "i", "s", "t", "r", "a", "t", "i", "v">>,
                 <<"o", "f", "i", "m", "a", "t", "i", "c", "a">>,
                 <<"o", "f", "i", "m", "á", "t", "i", "c", "a">>,
                 <<"c", "o", "n", "t", "a", "b", "i", "l", "i", "d", "a", "d">>,
                 <<"n", "o", "m", "i", "n">>,
                 <<"g", "e", "s", "t", "i", "o", "n", " ", "d", "o", "c", "u", "m", "e", "n", "t", "a", "l">>,
                 <<"g", "e", "s", "t", "i", "ó", "n", " ", "d", "o", "c", "u", "m", "e", "n", "t", "a", "l">>,
                 <<"r", "e", "c", "e", "p", "c", "i", "o", "n">>,
                 <<"r", "e", "c", "e", "p", "c", "i", "ó", "n">>,
                 <<"s", "e", "c", "r", "e", "t", "a", "r", "i">> }],
  [label |-> "Sanidad / Atención Social",
   patterns |-> { <<"a", "t", "e", "n", "c", "i", "o", "n", " ", "s", "o", "c", "i", "o", "s", "a", "n", "i", "t", "a", "r", "i", "a">>,
                 <<"a", "t", "e", "n", "c", "i", "ó", "n", " ", "s", "o", "c", "i", "o", "s", "a", "n", "i", "t", "a", "r", "i", "a">>,
                 <<"g", "e", "r", "i", "a", "t", "r">>,
                 <<"d", "e", "p", "e", "n", "d", "i", "e", "n", "t", "e", "s">>,
                 <<"c", "u", "i", "d", "a", "d", "o", "r">>,
                 <<"e", "n", "f", "e", "r", "m", "e", "r", "i", "a">>,
                 <<"e", "n", "f", "e", "r", "m", "e", "r", "í", "a">>,
                 <<"s", "a", "n", "i", "d", "a", "d">>,
                 <<"p", "r", "i", "m", "e", "r", "o", "s", " ", "a", "u", "x", "i", "l", "i", "o", "s">> }],
  [label |-> "Educación / Monitoraje",
   patterns |-> { <<"e", "d", "u", "c", "a", "c", "i", "o", "n", " ", "i", "n", "f", "a", "n", "t", "i", "l">>,
                 <<"e", "d", "u", "c", "a", "c", "i", "ó", "n", " ", "i", "n", "f", "a", "n", "t", "i", "l">>,
                 <<"m", "o", "n", "i", "t", "o", "r">>,
                 <<"d", "o", "c", "e", "n", "c", "i", "a">>,
                 <<"f", "o", "r", "m", "a", "c", "i", "o", "n", " ", "p", "a", "r", "a", " ", "e", "l", " ", "e", "m", "p", "l", "e", "o">>,
                 <<"f", "o", "r", "m", "a", "c", "i", "ó", "n", " ", "p", "a", "r", "a", " ", "e", "l", " ", "e", "m", "p", "l", "e", "o">> }],
  [label |-> "Estética / Imagen Personal",
   patterns |-> { <<"e", "s", "t", "e", "t", "i", "c", "a">>,
                 <<"e", "s", "t", "é", "t", "i", "c", "a">>,
                 <<"p", "e", "l", "u", "q", "u", "e", "r", "i", "a">>,
                 <<"p", "e", "l", "u", "q", "u", "e", "r", "í", "a">>,
                 <<"i", "m", "a", "g", "e", "n", " ", "p", "e", "r", "s", "o", "n", "a", "l">>,
                 <<"m", "a", "q", "u", "i", "l", "l", "a", "j", "e">>,
                 <<"u", "ñ", "a", "s">>,
                 <<"b", "a", "r", "b", "e", "r", "i", "a">>,
                 <<"b", "a", "r", "b", "e", "r", "í", "a">>,
                 <<"m", "a", "s", "a", "j", "e">>,
                 <<"s", "p", "a">> }],
  [label |-> "Hostelería / Cocina",
   patterns |-> { <<"h", "o", "s", "t", "e", "l", "e", "r", "i", "a">>,
                 <<"h", "o", "s", "t", "e", "l", "e", "r", "í", "a">>,
                 <<"c", "o", "c", "i", "n", "a">>,
                 <<"p", "a", "s", "t", "e", "l", "e", "r", "i", "a">>,
                 <<"p", "a", "s", "t", "e", "l", "e", "r", "í", "a">>,
                 <<"r", "e", "p", "o", "s", "t", "e", "r", "i", "a">>,
                 <<"r", "e", "p", "o", "s", "t", "e", "r", "í", "a">>,
                 <<"r", "e", "s", "t", "a", "u", "r", "a", "n", "t", "e">>,
                 <<"c", "a", "m", "a", "r", "e", "r">> }],
  [label |-> "Comercio / Ventas / Marketing",
   patterns |-> { <<"c", "o", "m", "e", "r", "c", "i", "o">>,
                 <<"v", "e", "n", "t", "a", "s">>,
                 <<"d", "e", "p", "e", "n", "d", "i", "e", "n", "t">>,
                 <<"a", "t", "e", "n", "c", "i", "o", "n", " ", "a", "l", " ", "c", "l", "i", "e", "n", "t", "e">>,
                 <<"a", "t", "e", "n", "c", "i", "ó", "n", " ", "a", "l", " ", "c", "l", "i", "e", "n", "t", "e">>,
                 <<"m", "a", "r", "k", "e", "t", "i", "n", "g">>,
                 <<"t", "e", "l", "e", "v", "e", "n", "t", "a">>,
                 <<"e", "s", "c", "a", "p", "a", "r", "a", "t", "i", "s", "m", "o">> }],
  [label |-> "Informática / TIC",
   patterns |-> { <<"i", "n", "f", "o", "r", "m", "a", "t", "i", "c", "a">>,
                 <<"i", "n", "f", "o", "r", "m", "á", "t", "i", "c", "a">>,
                 <<"p", "r", "o", "g", "r", "a", "m", "a", "c", "i", "o", "n">>,
                 <<"p", "r", "o", "g", "r", "a", "m", "a", "c", "i", "ó", "n">>,
                 <<"s", "i", "s", "t", "e", "m", "a", "s">>,
                 <<"r", "e", "d", "e", "s">>,
                 <<"c", "i", "b", "e", "r", "s", "e", "g", "u", "r", "i", "d", "a", "d">>,
                 <<"t", "i", "c">>,
                 <<"d", "e", "s", "a", "r", "r", "o", "l", "l", "o", " ", "w", "e", "b">>,
                 <<"b", "a", "s", "e", "s", " ", "d", "e", " ", "d", "a", "t", "o", "s">> }],
  [label |-> "Idiomas",
   patterns |-> { <<"i", "d", "i", "o", "m", "a">>,
                 <<"i", "n", "g", "l", "e", "s">>,
                 <<"i", "n", "g", "l", "é", "s">>,
                 <<"a", "l", "e", "m", "a", "n">>,
                 <<"a", "l", "e", "m", "á", "n">>,
                 <<"f", "r", "a", "n", "c", "e", "s">>,
                 <<"f", "r", "a", "n", "c", "é", "s">>,
                 <<"e", "s", "p", "a", "ñ", "o", "l">>,
                 <<"e", "s", "p", "a", "n", "o", "l">> }],
  [label |-> "Logística / Almacén",
   patterns |-> { <<"l", "o", "g", "i", "s", "t", "i", "c", "a">>,
                 <<"l", "o", "g", "í", "s", "t", "i", "c", "a">>,
                 <<"a", "l", "m", "a", "c", "e", "n">>,
                 <<"a", "l", "m", "a", "c", "é", "n">>,
                 <<"c", "a", "r", "r", "e", "t", "i", "l", "l", "e", "r", "o">>,
                 <<"c", "a", "d", "e", "n", "a", " ", "d", "e", " ", "s", "u", "m", "i", "n", "i", "s", "t", "r", "o">>,
                 <<"t", "r", "a", "n", "s", "p", "o", "r", "t", "e">> }],
  [label |-> "Industria / Mantenimiento / Construcción",
   patterns |-> { <<"m", "e", "c", "a", "n", "i", "c", "a">>,
                 <<"m", "e", "c", "á", "n", "i", "c", "a">>,
                 <<"a", "u", "t", "o", "m", "o", "c", "i", "o", "n">>,
                 <<"a", "u", "t", "o", "m", "o", "c", "i", "ó", "n">>,
                 <<"s", "o", "l", "d", "a", "d", "u", "r", "a">>,
                 <<"e", "l", "e", "c", "t", "r", "i", "c", "i", "d", "a", "d">>,
                 <<"m", "a", "n", "t", "e", "n", "i", "m", "i", "e", "n", "t", "o">>,
                 <<"i", "n", "d", "u", "s", "t", "r", "i", "a", "l">>,
                 <<"m", "o", "n", "t", "a", "j", "e">>,
                 <<"i", "n", "s", "t", "a", "l", "a", "c", "i", "o", "n", "e", "s">>,
                 <<"c", "l", "i", "m", "a", "t", "i", "z", "a", "c", "i", "o", "n">>,
                 <<"c", "l", "i", "m", "a", "t", "i", "z", "a", "c", "i", "ó", "n">>,
                 <<"r", "e", "f", "r", "i", "g", "e", "r", "a", "c", "i", "o", "n">>,
                 <<"r", "e", "f", "r", "i", "g", "e", "r", "a", "c", "i", "ó", "n">>,
                 <<"f", "r", "i", "g", "o", "r">>,
                 <<"f", "o", "n", "t", "a", "n", "e", "r", "i", "a">>,
                 <<"f", "o", "n", "t", "a", "n", "e", "r", "í", "a">>,
                 <<"c", "o", "n", "s", "t", "r", "u", "c", "c", "i", "o", "n">>,
                 <<"c", "o", "n", "s", "t", "r", "u", "c", "c", "i", "ó", "n">>,
                 <<"a", "l", "b", "a", "ñ", "i", "l", "e", "r">>,
                 <<"c", "a", "r", "p", "i", "n", "t", "e", "r", "i", "a">>,
                 <<"c", "a", "r", "p", "i", "n", "t", "e", "r", "í", "a">> }],
  [label |-> "Seguridad / PRL",
   patterns |-> { <<"s", "e", "g", "u", "r", "i", "d", "a", "d">>,
                 <<"v", "i", "g", "i", "l", "a", "n", "t", "e">>,
                 <<"p", "r", "e", "v", "e", "n", "c", "i", "o", "n", " ", "d", "e", " ", "r", "i", "e", "s", "g", "o", "s">>,
                 <<"p", "r", "e", "v", "e", "n", "c", "i", "ó", "n", " ", "d", "e", " ", "r", "i", "e", "s", "g", "o", "s">> }],
  [label |-> "Limpieza",
   patterns |-> { <<"l", "i", "m", "p", "i", "e", "z", "a">> }],
  [label |-> "Emprendimiento / Gestión",
   patterns |-> { <<"e", "m", "p", "r", "e", "n", "d", "i", "m", "i", "e", "n", "t", "o">>,
                 <<"a", "u", "t", "o", "e", "m", "p", "l", "e", "o">>,
                 <<"g", "e", "s", "t", "i", "o", "n", " ", "e", "m", "p", "r", "e", "s", "a", "r", "i", "a", "l">>,
                 <<"g", "e", "s", "t", "i", "ó", "n", " ", "e", "m", "p", "r", "e", "s", "a", "r", "i", "a", "l">> }]
  >>

\* rx.test(t) for the pattern of rule r
ruleMatches(r, t) == \E p \in categoryRules[r].patterns : includes(t, p)

\* for (const [rx, cat] of rules) if (rx.test(t)) return cat; return "Otros"
RECURSIVE firstMatchFrom(_, _)
firstMatchFrom(r, t) ==
  IF r > Len(categoryRules) THEN "Otros"
  ELSE IF ruleMatches(r, t) THEN categoryRules[r].label
  ELSE firstMatchFrom(r + 1, t)

\* (mutant) the text is matched as it is written
categorizeAsWritten(text) == firstMatchFrom(1, OrElse(text, EMPTY))

categorize(text) == firstMatchFrom(1, toLowerCase(OrElse(text, EMPTY)))

\* Titles: nothing, no text, a word, or two words.  The words are of one
\* rule, of two rules ("estética" holds "tic", "dependientes" holds
\* "dependient"), in capitals, and of no rule.
CategoryTexts ==
  LET CategoryWords ==
        { <<"a", "u", "x", "i", "l", "i", "a", "r">>,
          <<"c", "o", "c", "i", "n", "a">>,
          <<"t", "i", "c">>,
          <<"e", "s", "t", "é", "t", "i", "c", "a">>,
          <<"E", "S", "T", "É", "T", "I", "C", "A">>,
          <<"d", "e", "p", "e", "n", "d", "i", "e", "n", "t", "e", "s">>,
          <<"L", "i", "m", "p", "i", "e", "z", "a">>,
          <<"t", "a", "l", "l", "e", "r">>,
          <<"i", "n", "g", "l", "é", "s">>,
          <<"x">> }
  IN  { NULL, EMPTY } \cup CategoryWords
        \cup { w1 \o <<" ">> \o w2 : w1 \in CategoryWords, w2 \in CategoryWords }

categorizeCall == Returns(categorize(input))

SpecCategorize == InitCall(CategoryTexts) /\ [][categorizeCall]_vars

\* ------------------------------------------------- hydration on its own

\* Records before hydration: level missing, empty, blank or populated
HydrateRows ==
  { Course(RowIdOf("csv", 0, 0), esp, nivel, url) :
      esp \in EspValues, nivel \in { NULL, EMPTY, <<" ">>, <<"2">> }, url \in { EMPTY, <<"u">> } }

\* Mappings: level of an entry empty, blank or populated; URL missing or not
HydrateCaches ==
  LET HydrateEntries ==
        { [nivel |-> nivel, sepe_url |-> url, ts |-> 1] :
            nivel \in { EMPTY, <<" ">>, <<"3">> }, url \in { NULL, <<"v">> } }
  IN  UNION { [K -> HydrateEntries] :
                K \in SUBSET { normCode(esp) : esp \in EspValues \ {EMPTY} } }

\* Any batch about to be hydrated with any mapping.
InitHydrate ==
  /\ rows \in SeqsUpTo(HydrateRows, MaxRows)
  /\ selectedRowIds = {}
  /\ nivelCache \in HydrateCaches
  /\ storage = saveNivelCache(EmptyCache)
  /\ apiBase = EMPTY
  /\ search = EMPTY
  /\ loadingNivel = FALSE
  /\ clock = 0
  /\ mounted = TRUE
  /\ pendingLoad = NoLoad
  /\ input = NoValue
  /\ output = NoValue
  /\ alert = ""
  /\ pc = "hydrate"
  /\ now = 0
  /\ selected = {}
  /\ toFetch = <<>>
  /\ cachedRows = <<>>
  /\ nextTask = 1
  /\ status = <<>>
  /\ executing = <<>>
  /\ results = <<>>

\* hydrateNivelFromCache(rows, cache) is applied
hydrateStep ==
  /\ pc = "hydrate"
  /\ rows' = hydrateNivelFromCache(rows, nivelCache)
  /\ pc' = "idle"
  /\ UNCHANGED << selectedRowIds, nivelCache, storage, apiBase, search, loadingNivel, clock,
                  mounted, pendingLoad, input, output, alert >>
  /\ UNCHANGED << now, selected, toFetch, cachedRows, nextTask, status, executing, results >>

SpecHydrate == InitHydrate /\ [][hydrateStep]_vars

\* ------------------------------------------------- the scheduler on its own

\* A batch of MaxFetch rows from a csv file, all selected, the endpoint
\* configured, nothing cached.
RunRows ==
  [i \in 1..MaxFetch |->
     tabularCourse("csv", 0, IF i % 2 = 1 THEN <<" ", "a">> ELSE <<"b", " ", "c">>, i - 1)]

InitRun ==
  /\ rows = RunRows
  /\ selectedRowIds = { RunRows[i].RowId : i \in 1..MaxFetch }
  /\ nivelCache = EmptyCache
  /\ storage = saveNivelCache(EmptyCache)
  /\ apiBase = <<"h">>
  /\ search = EMPTY
  /\ loadingNivel = FALSE
  /\ clock = 0
  /\ mounted = TRUE
  /\ pendingLoad = NoLoad
  /\ input = NoValue
  /\ output = NoValue
  /\ alert = ""
  /\ pc = "idle"
  /\ now = 0
  /\ selected = {}
  /\ toFetch = <<>>
  /\ cachedRows = <<>>
  /\ nextTask = 1
  /\ status = <<>>
  /\ executing = <<>>
  /\ results = <<>>

RunResponses ==
  { [ok |-> FALSE, nivel |-> NULL, sepe_url |-> NULL],
    [ok |-> TRUE, nivel |-> <<"2">>, sepe_url |-> NULL] }

NextRun ==
  \/ fetchNivelForSelected
  \/ applyCachedStep
  \/ pLimitIter
  \/ complete(RunResponses)
  \/ finishRun

SpecRun == InitRun /\ [][NextRun]_vars

\* The steps of a run are taken (one macrotask follows another), and every
\* lookup that was dispatched is answered.
SpecRunFair ==
  /\ SpecRun
  /\ WF_vars(applyCachedStep)
  /\ WF_vars(pLimitIter)
  /\ WF_vars(complete(RunResponses))
  /\ WF_vars(finishRun)

\* A run that may be abandoned: the scheduler's run and the teardown of the
\* component.
NextTeardown ==
  \/ teardown
  \/ fetchNivelForSelected
  \/ applyCachedStep
  \/ pLimitIter
  \/ complete(RunResponses)
  \/ finishRun

SpecTeardown == InitRun /\ [][NextTeardown]_vars

\* The session on a durable storage whose writes may fail (quota exceeded,
\* storage disabled): rows of a tabular feed, selected and enriched.
NextQuota ==
  \/ pc = "idle" /\ loadTabular({"feed"})
  \/ toggleSelect
  \/ pc = "idle" /\ setApiBase
  \/ fetchNivelForSelected
  \/ applyCachedStep
  \/ pLimitIter
  \/ \E i \in InFlight, resp \in Responses, ok \in BOOLEAN : completeWrite(i, resp, ok)
  \/ finishRun

SpecQuota == Init /\ [][NextQuota]_vars

\* Loads that overlap a run.  Between runs the user opens csv files
\* (handleFile) of one or two records with a code and starts a run over the
\* batch of a file; while the run awaits its lookups the csv feed
\* (loadMadridFeed), of one record, is requested and arrives.  Both give their
\* RowIds the prefix csv_.  The clock may advance once, whenever no macrotask
\* runs.
NextOverlap ==
  \/ clock < 1 /\ tick
  \/ /\ sourceRequested
     /\ LET src == pendingLoad'.source
        IN  /\ src.kind = "csv"
            /\ src.handler = IF pc = "idle" THEN "file" ELSE "feed"
            /\ Len(src.data) \in (IF pc = "idle" THEN {2, 3} ELSE {2})
            /\ \A i \in 2..Len(src.data) : Truthy(src.data[i])
  \/ /\ sourceArrives
     /\ pendingLoad.source.handler = IF pc = "idle" THEN "file" ELSE "feed"
  \/ pc = "idle" /\ toggleSelect
  \/ pc = "idle" /\ setApiBase
  \/ /\ ~pendingLoad.pending
     /\ pendingLoad.source.handler # "feed"
     /\ fetchNivelForSelected
  \/ applyCachedStep
  \/ pLimitIter
  \/ complete(Responses)
  \/ finishRun

SpecOverlap == Init /\ [][NextOverlap]_vars

\* ================================================================== claims

\* the step in which a run ends (early exit, Steps 5 and 6, or the catch block)
RunEnds == pc # "idle" /\ pc' = "idle"

\* the step in which pLimit has returned and Steps 5 and 6 are taken
RunCompletes == pc = "all" /\ pc' = "idle"

\* the result of task i of the run, once it has one
ResultOf(i) == mapGet(results, toFetch[i].RowId)

\* C1: during a run, the number of lookups dispatched and not yet completed
\* never exceeds 4.
C1_AtMostFourOutstanding == Cardinality(InFlight) <= CONCURRENCY

\* C2: when a run ends, every record that was selected at its start and has a
\* non-empty level is no longer selected, and every such record whose level is
\* empty and that was still selected stays selected.
C2_ResolvedAreDeselected ==
  [][RunEnds =>
       \A j \in 1..Len(rows') :
         rows'[j].RowId \in selected =>
           /\ Truthy(rows'[j].Nivel) => rows'[j].RowId \notin selectedRowIds'
           /\ (~Truthy(rows'[j].Nivel) /\ rows'[j].RowId \in selectedRowIds)
                => rows'[j].RowId \in selectedRowIds']_vars

\* C3: in every reachable state each record's SEPE_URL is empty or is makeUrl
\* of the record's current Especialidad.
C3_UrlIsDerived ==
  \A j \in 1..Len(rows) :
    rows[j].SEPE_URL = EMPTY \/ rows[j].SEPE_URL = makeUrl(rows[j].Especialidad)

\* C4: a failed lookup never aborts the run: a run that has dispatched lookups
\* ends only when pLimit has returned, with no error alert, every task of
\* toFetch dispatched and answered, and every result written to the record
\* with its id.
C4_FailureDoesNotAbort ==
  [][(pc \in {"loop", "race", "all"} /\ pc' = "idle") =>
       /\ pc = "all"
       /\ alert' = ""
       /\ loadingNivel' = FALSE
       /\ \A i \in 1..Len(toFetch) :
            /\ status[i] = "done"
            /\ mapHas(results, toFetch[i].RowId)
            /\ \A j \in 1..Len(rows) :
                 rows[j].RowId = toFetch[i].RowId => rows'[j].Nivel = ResultOf(i).nivel]_vars

\* C4 witness: all lookups of a run are answered, the first answer a failure
\* and a later one a level.
C4_Witness ==
  /\ pc = "all"
  /\ promiseAllResolved(executing, status)
  /\ Len(results) >= 2
  /\ results[1].nivel = EMPTY
  /\ results[2].nivel # EMPTY
  /\ \E j \in 1..Len(rows) : rows[j].RowId = results[2].id

\* C5: when a run completes, a record whose lookup failed has an empty level,
\* a SEPE_URL equal to makeUrl of its own Especialidad, and is still selected
\* if it was.
C5_FailedRecord ==
  [][RunCompletes =>
       \A i \in 1..Len(toFetch) :
         ResultOf(i).nivel = EMPTY =>
           \A j \in 1..Len(rows') :
             rows'[j].RowId = toFetch[i].RowId =>
               /\ rows'[j].Nivel = EMPTY
               /\ rows'[j].SEPE_URL = makeUrl(rows'[j].Especialidad)
               /\ rows'[j].RowId \in selectedRowIds => rows'[j].RowId \in selectedRowIds']_vars

\* C5 witness: a lookup has failed for a record of the batch that is selected,
\* and pLimit has returned.
C5_Witness ==
  /\ pc = "all"
  /\ promiseAllResolved(executing, status)
  /\ \E i \in 1..Len(toFetch) :
       /\ ResultOf(i).nivel = EMPTY
       /\ toFetch[i].RowId \in selectedRowIds
       /\ \E j \in 1..Len(rows) : rows[j].RowId = toFetch[i].RowId

\* C6: when every dispatched lookup is answered, a run terminates (the loading
\* flag, once set, is cleared again), and when it ends the flag is cleared and
\* pLimit has returned exactly one result for each record of toFetch.
C6_RunTerminates ==
  /\ loadingNivel ~> ~loadingNivel
  /\ [][RunEnds =>
          /\ loadingNivel' = FALSE
          /\ Len(results) = Len(toFetch)
          /\ \A i \in 1..Len(toFetch) :
               Cardinality({ k \in 1..Len(results) : results[k].id = toFetch[i].RowId }) = 1]_vars

\* C6 witness: a run over the whole batch has ended, with a level for one
\* record and a failure for another, which is still selected.
C6_Witness ==
  /\ pc = "idle"
  /\ ~loadingNivel
  /\ \E j \in 1..Len(rows) : rows[j].Nivel # EMPTY
  /\ \E j \in 1..Len(rows) : rows[j].Nivel = EMPTY /\ rows[j].RowId \in selectedRowIds

\* the rows of the run, at Step 2
RunRowsAt == { j \in 1..Len(rows) : rows[j].RowId \in selected }

\* the cache entry of row j's normalized code has a non-empty level
HasCachedLevel(j) ==
  LET code == normCode(rows[j].Especialidad)
  IN  code \in DOMAIN nivelCache /\ nivelCache[code].nivel # EMPTY

CachedLevel(j) == nivelCache[normCode(rows[j].Especialidad)].nivel

\* C7 as stated: when every selected record's code has a cache entry with a
\* non-empty level, the run issues no lookup and afterwards every selected
\* record has a non-empty level, the cached one.
C7_Original ==
  [][(pc = "step2" /\ \A j \in RunRowsAt : HasCachedLevel(j)) =>
       /\ Len(toFetch) = 0
       /\ pc' = "idle"
       /\ \A j \in RunRowsAt :
            rows'[j].Nivel # EMPTY /\ rows'[j].Nivel = CachedLevel(j)]_vars

\* C7: when every selected record's code has a cache entry whose level is not
\* blank (non-empty after trimming), the run issues no lookup and afterwards
\* every selected record has a non-empty level: the one it already had or, if
\* it had none, the cached one.
C7_AllCachedNoLookup ==
  [][(pc = "step2" /\ \A j \in RunRowsAt :
                        isCacheHit(normCode(rows[j].Especialidad), nivelCache)) =>
       /\ Len(toFetch) = 0
       /\ pc' = "idle"
       /\ InFlight' = {}
       /\ \A j \in RunRowsAt :
            /\ rows'[j].Nivel # EMPTY
            /\ rows'[j].Nivel = OrElse(rows[j].Nivel, CachedLevel(j))]_vars

\* C7 witness: a run whose selected records are all cache hits, one of them
\* without a level of its own.
C7_Witness ==
  /\ pc = "step2"
  /\ RunRowsAt # {}
  /\ \A j \in RunRowsAt : isCacheHit(normCode(rows[j].Especialidad), nivelCache)
  /\ \E j \in RunRowsAt : rows[j].Nivel = EMPTY

\* C8: a click on the fetch button while no endpoint is configured attempts
\* nothing: no lookup is dispatched and the batch, the cache mapping, the
\* selection and the loading flag are unchanged.
C8_NoEndpointNothingAttempted ==
  [][(fetchNivelForSelected /\ ~Truthy(apiBase)) =>
       /\ UNCHANGED << rows, nivelCache, storage, selectedRowIds, loadingNivel >>
       /\ pc' = "idle"
       /\ InFlight' = {}
       /\ results' = <<>>]_vars

\* C8 witness: the fetch button was clicked with a selection and no endpoint.
C8_Witness ==
  /\ alert = "Configura un endpoint API"
  /\ ~Truthy(apiBase)
  /\ selectedRowIds # {}
  /\ pc = "idle"

\* C9: the cached copies are written to the batch (Step 2) in a step at which
\* no lookup of the run has been dispatched, and a lookup is dispatched only
\* inside pLimit's loop, which is entered from Step 2 only.
C9_CacheAppliedBeforeDispatch ==
  [][/\ pc = "step2" =>
          /\ status = <<>>
          /\ results = <<>>
          /\ \A k \in 1..Len(cachedRows), j \in 1..Len(rows) :
               rows[j].RowId = cachedRows[k].RowId => rows'[j] = cachedRows[k]
     /\ (InFlight' \ InFlight) # {} => pc = "loop"
     /\ pc' = "loop" => pc \in {"step2", "loop", "race"}]_vars

\* C9 witness: a run with a lookup to dispatch and a cached copy that differs
\* from the row it replaces.
C9_Witness ==
  /\ pc = "step2"
  /\ Len(toFetch) > 0
  /\ \E k \in 1..Len(cachedRows), j \in 1..Len(rows) :
       rows[j].RowId = cachedRows[k].RowId /\ rows[j] # cachedRows[k]

\* C10: a lookup that yields a non-empty level writes, in the step in which it
\* completes, the entry [nivel, sepe_url, ts = now of the run] for its
\* normalized code and leaves every other entry as it was; an entry leaves the
\* mapping only when the cache is cleared; and when the run completes every
\* non-empty level is written to the record with the result's id.
C10_CacheWriteThrough ==
  [][/\ \A i \in 1..Len(status) :
          (status[i] = "inflight" /\ Len(status') = Len(status) /\ status'[i] = "done"
             /\ results'[Len(results')].nivel # EMPTY) =>
            LET code == normCode(toFetch[i].Especialidad)
                r == results'[Len(results')]
            IN  /\ code \in DOMAIN nivelCache'
                /\ nivelCache'[code] = [nivel |-> r.nivel, sepe_url |-> r.sepe_url, ts |-> now]
                /\ \A k \in (DOMAIN nivelCache) \ {code} :
                     k \in DOMAIN nivelCache' /\ nivelCache'[k] = nivelCache[k]
     /\ (\E k \in DOMAIN nivelCache : k \notin DOMAIN nivelCache') =>
          nivelCache' = EmptyCache /\ alert' = "Cache cleared"
     /\ RunCompletes =>
          \A j \in 1..Len(rows) :
            (mapHas(results, rows[j].RowId) /\ mapGet(results, rows[j].RowId).nivel # EMPTY) =>
              rows'[j].Nivel = mapGet(results, rows[j].RowId).nivel]_vars

\* C10 witness: two lookups for different codes have yielded levels, and both
\* codes are in the mapping.
C10_Witness ==
  /\ pc = "all"
  /\ Len(toFetch) = 2
  /\ Len(results) = 2
  /\ normCode(toFetch[1].Especialidad) # normCode(toFetch[2].Especialidad)
  /\ \A k \in 1..2 :
       /\ results[k].nivel # EMPTY
       /\ normCode(toFetch[k].Especialidad) \in DOMAIN nivelCache

\* task i of the run is answered in this step
Completes(i) ==
  /\ i \in 1..Len(status)
  /\ status[i] = "inflight"
  /\ Len(status') = Len(status)
  /\ status'[i] = "done"

\* C11: when two records of a run normalize to the same code and both lookups
\* yield a level, the second answer overwrites the entry of the first: after
\* the step in which the later lookup completes, the entry of the code holds
\* the level and the URL of that lookup.
C11_LaterCompletionWins ==
  [][\A i \in 1..Len(status), j \in 1..Len(status) :
       (/\ i # j
        /\ Completes(i)
        /\ status[j] = "done"
        /\ normCode(toFetch[i].Especialidad) = normCode(toFetch[j].Especialidad)
        /\ results'[Len(results')].nivel # EMPTY) =>
         LET code == normCode(toFetch[i].Especialidad)
             r == results'[Len(results')]
         IN  /\ code \in DOMAIN nivelCache'
             /\ nivelCache'[code].nivel = r.nivel
             /\ nivelCache'[code].sepe_url = r.sepe_url]_vars

\* C11 witness: two lookups for one code have been answered with different
\* levels, and the mapping holds the level of the second answer.
C11_Witness ==
  /\ pc = "all"
  /\ Len(toFetch) = 2
  /\ Len(results) = 2
  /\ normCode(toFetch[1].Especialidad) = normCode(toFetch[2].Especialidad)
  /\ results[1].nivel # EMPTY
  /\ results[2].nivel # EMPTY
  /\ results[1].nivel # results[2].nivel
  /\ normCode(toFetch[1].Especialidad) \in DOMAIN nivelCache
  /\ nivelCache[normCode(toFetch[1].Especialidad)].nivel = results[2].nivel

\* C12: once the component has been torn down (the run is abandoned), no
\* further lookup is dispatched.
C12_NoAdmissionAfterTeardown == [][~mounted => InFlight' \subseteq InFlight]_vars

\* the RowIds of the run's toFetch
ToFetchIds == { toFetch[i].RowId : i \in 1..Len(toFetch) }

\* the rows of the batch whose normalized code is empty
EmptyCodeRows == { j \in 1..Len(rows) : normCode(rows[j].Especialidad) = EMPTY }

\* the parts of C13 on lookups, cache keys and hydration
NoCachingOfEmptyCode ==
  /\ EMPTY \notin DOMAIN nivelCache
  /\ \A i \in 1..Len(toFetch) : normCode(toFetch[i].Especialidad) # EMPTY
  /\ \A j \in EmptyCodeRows :
       /\ hydrateRow(rows[j], nivelCache) = rows[j]
       /\ cachedCopy(rows[j], nivelCache).Nivel = rows[j].Nivel

\* C13 as stated: a record with an empty normalized code has no lookup, no
\* cache entry and no hydration, and after a run its level is empty and it
\* stays selected.
C13_Original ==
  /\ []NoCachingOfEmptyCode
  /\ [][RunEnds =>
          \A j \in EmptyCodeRows :
            (rows[j].RowId \in selected \ ToFetchIds) =>
              /\ rows'[j].Nivel = EMPTY
              /\ rows[j].RowId \in selectedRowIds => rows[j].RowId \in selectedRowIds']_vars

\* C13: a record whose normalized code is empty when a run starts has no
\* lookup issued, no cache entry is written under the empty key, hydration and
\* the cached copy leave its level as it is, and the run leaves its level as
\* it was; if that level is blank the record stays selected.
C13_EmptyCodeUntouched ==
  /\ []NoCachingOfEmptyCode
  /\ [][/\ pc = "step2" =>
             \A j \in EmptyCodeRows :
               rows[j].RowId \in selected =>
                 /\ rows[j].RowId \notin ToFetchIds
                 /\ rows'[j].Nivel = rows[j].Nivel
                 /\ (~Truthy(trim(rows[j].Nivel)) /\ rows[j].RowId \in selectedRowIds)
                      => rows[j].RowId \in selectedRowIds'
        /\ RunCompletes =>
             \A j \in 1..Len(rows) :
               (rows[j].RowId \in selected \ ToFetchIds) =>
                 /\ rows'[j] = rows[j]
                 /\ rows[j].RowId \in selectedRowIds => rows[j].RowId \in selectedRowIds']_vars

\* C13 witness: a run with lookups to dispatch starts with a selected record
\* that has an empty code and no level, while the mapping has entries.
C13_Witness ==
  /\ pc = "step2"
  /\ Len(toFetch) > 0
  /\ DOMAIN nivelCache # {}
  /\ \E j \in EmptyCodeRows :
       rows[j].RowId \in selected /\ rows[j].Nivel = EMPTY /\ rows[j].RowId \in selectedRowIds

\* the step in which the cache mapping is read from the durable slot
Loads == pc = "boot" /\ pc' # "boot"

\* the ts of a stored entry is a number of days, and the entry's age at t
HasAge(entry) == entry.ts # 0 /\ entry.ts # NOT_A_NUMBER

\* C14: every entry loadNivelCache returns is a stored entry with a
\* usable ts whose age is at most the window of 180 days, and every stored
\* entry within the window is returned.
C14_NoExpiredEntryLoaded ==
  [][(Loads /\ storage.kind = "object") =>
       /\ \A k \in DOMAIN nivelCache' :
            /\ k \in DOMAIN storage.data
            /\ nivelCache'[k] = storage.data[k]
            /\ HasAge(nivelCache'[k])
            /\ clock - nivelCache'[k].ts <= NIVEL_TTL_DAYS
       /\ \A k \in DOMAIN storage.data :
            (HasAge(storage.data[k]) /\ clock - storage.data[k].ts <= NIVEL_TTL_DAYS)
              => k \in DOMAIN nivelCache']_vars

\* the step in which the effect writes the cache mapping to the durable slot
Saves == pc = "effect" /\ pc' = "idle"

Unusable(slot) == slot.kind \in {"absent", "empty", "denied", "garbage", "null"}

\* C16: loadNivelCache never fails its caller: the component is constructed
\* and nothing is reported whatever the durable slot holds, and on a slot
\* that is absent, empty, unreadable or unparseable the mapping returned is
\* the empty one.
C16_LoadNeverFails ==
  [][Loads => /\ mounted' /\ alert' = "" /\ pc' = "effect"
              /\ (Unusable(storage) => nivelCache' = EmptyCache)]_vars

\* the component stands constructed on an unreadable or unparseable slot
C16_Witness ==
  /\ pc = "effect" /\ mounted /\ alert = ""
  /\ storage.kind \in {"denied", "garbage"}
  /\ nivelCache = EmptyCache

\* C17: a failing write to durable storage is swallowed.  In a step in which
\* a lookup is answered and the write of the new mapping fails, the component
\* stays mounted, no error is reported, the batch and the selection are left
\* alone, and the in-memory mapping and the result pushed are those of the
\* step in which the write succeeds; and the run ends by applying its
\* results as on a storage that accepts every write.
C17_FailedWriteSwallowed ==
  /\ [][\A i \in InFlight, resp \in Responses :
          completeWrite(i, resp, FALSE) =>
            /\ mounted' = mounted
            /\ alert' = ""
            /\ rows' = rows /\ selectedRowIds' = selectedRowIds
            /\ nivelCache' = cacheAfterLookup(nivelCache, toFetch[i], resp, now)
            /\ results' = Append(results, taskResult(toFetch[i], resp))
            /\ loadingNivel' = loadingNivel]_vars
  /\ [][pc = "all" /\ pc' = "idle" =>
          /\ alert' = ""
          /\ rows' = applyResults(rows, results)
          /\ selectedRowIds' = uncheckFetched(selectedRowIds, toFetch, results)
          /\ ~loadingNivel']_vars

\* a run has ended normally with a level written to a row and to the
\* in-memory mapping, while the durable slot never took the write
C17_Witness ==
  /\ pc = "idle" /\ mounted /\ alert = "" /\ ~loadingNivel
  /\ nivelCache # EmptyCache
  /\ storage.data = EmptyCache
  /\ \E i \in 1..Len(rows) :
       /\ rows[i].Nivel # EMPTY
       /\ normCode(rows[i].Especialidad) \in DOMAIN nivelCache

Hydrates == pc = "hydrate" /\ pc' = "idle"

\* C18: hydrateNivelFromCache never overwrites a populated level: a record
\* with a non-empty level has the same level after hydration, whatever the
\* mapping holds; a record with an empty level whose normalized code has an
\* entry with a non-empty level has that entry's level afterwards.
C18_HydrationKeepsPopulatedLevel ==
  [][Hydrates =>
       /\ Len(rows') = Len(rows)
       /\ \A i \in 1..Len(rows) :
            LET k == normCode(rows[i].Especialidad)
            IN  /\ Truthy(rows[i].Nivel) => rows'[i].Nivel = rows[i].Nivel
                /\ (/\ ~Truthy(rows[i].Nivel)
                    /\ k \in DOMAIN nivelCache
                    /\ Truthy(nivelCache[k].nivel)) => rows'[i].Nivel = nivelCache[k].nivel]_vars

\* after a hydration, one record has kept its level against an entry with
\* another level and one record has received an entry's level
C18_Witness ==
  /\ pc = "idle" /\ Len(rows) = 2
  /\ rows[1].Nivel = <<"2">>
  /\ normCode(rows[1].Especialidad) \in DOMAIN nivelCache
  /\ nivelCache[normCode(rows[1].Especialidad)].nivel = <<"3">>
  /\ rows[2].Nivel = <<"3">>

\* a load ends by making its batch visible
LoadSucceeds == pendingLoad.pending /\ ~pendingLoad'.pending /\ alert' = ""

\* C19: immediately after every successful load the visible batch is
\* hydrated against the current cache mapping: every record whose normalized
\* code has an entry with a non-empty level in nivelCache has a non-empty
\* level.
C19_BatchHydratedAgainstCurrentCache ==
  [][LoadSucceeds =>
       \A i \in 1..Len(rows') :
         LET code == normCode(rows'[i].Especialidad)
         IN  (code \in DOMAIN nivelCache' /\ Truthy(nivelCache'[code].nivel)) =>
               Truthy(rows'[i].Nivel)]_vars

\* the batches a tabular source of up to MaxRows records produces, hydrated
\* with the mapping cache
BatchesFrom(cache) ==
  { hydrateNivelFromCache([i \in 1..Len(body) |-> tabularCourse("feed", clock, body[i], i - 1)],
                          cache) : body \in SeqsUpTo(EspValues, MaxRows) }

\* C20: every successful load replaces the batch wholesale: afterwards the
\* batch consists exactly of the records produced from the new source, no
\* record of the prior batch remains, and the selection set is empty.
C20_LoadReplacesBatch ==
  [][LoadSucceeds =>
       /\ rows' \in BatchesFrom(pendingLoad.nivelCache)
       /\ selectedRowIds' = {}]_vars

\* a batch with a record of code A was enriched, and the batch now visible
\* holds a record of another code only
C20_Witness ==
  /\ pc = "idle" /\ ~pendingLoad.pending /\ alert = ""
  /\ DOMAIN nivelCache = { <<"A">> }
  /\ Len(rows) = 1
  /\ normCode(rows[1].Especialidad) = <<"B", " ", "C">>
  /\ selectedRowIds = {}

\* C21: in every reachable state the records of the batch have pairwise
\* distinct RowIds.
C21_RowIdsDistinct ==
  \A i, j \in 1..Len(rows) : i # j => rows[i].RowId # rows[j].RowId

\* a batch of two records, one of them selected
C21_Witness ==
  /\ Len(rows) = 2
  /\ rows[1].RowId # rows[2].RowId
  /\ selectedRowIds = { rows[2].RowId }

\* C22: a RowId of a record of one batch is never the RowId of a record of
\* a batch loaded later, also when the two loads are of the same kind and
\* read the same clock.
C22_RowIdNeverReused ==
  [][(loadJsonFeed \/ loadTabular(Prefixes)) =>
       \A i \in 1..Len(rows), j \in 1..Len(rows') : rows[i].RowId # rows'[j].RowId]_vars

\* the handler of a load resumes with its source and ends
Arrives == pendingLoad.pending /\ ~pendingLoad'.pending

\* a source that cannot be parsed
Unparseable(src) == src.kind \in {"http-error", "unsupported", "corrupt", "not-json"}

\* the records of a source that can be parsed
RecordsOf(src) == IF src.kind = "json" THEN src.data ELSE tableBody(src.data)

\* C23: a load that cannot be parsed aborts as a whole and leaves the batch,
\* the selection and the filters as they were; and nothing else aborts a
\* load: a source that can be parsed and holds records, whatever is absent
\* or malformed in them, is installed with one record per record of the
\* source.
C23_OnlyUnparseableAborts ==
  [][Arrives =>
       LET src == pendingLoad.source
       IN  /\ Unparseable(src) =>
                rows' = rows /\ selectedRowIds' = selectedRowIds /\ search' = search
           /\ (~Unparseable(src) /\ RecordsOf(src) # <<>>) =>
                /\ alert' = ""
                /\ Len(rows') = Len(RecordsOf(src))
                /\ selectedRowIds' = {}]_vars

\* an empty JSON array, or a table of the header row alone
EmptySource(src) ==
  \/ src.kind = "json" /\ src.data = <<>>
  \/ src.kind \in {"xlsx", "csv"} /\ Len(src.data) = 1

\* C24: ingesting an empty JSON array, or a tabular source with a header
\* row and no data row, succeeds and yields the empty batch: no error is
\* raised, the batch has no record and the selection and the search are
\* reset as after every load.
C24_EmptySourceEmptyBatch ==
  [][(Arrives /\ EmptySource(pendingLoad.source)) =>
       /\ alert' = ""
       /\ rows' = <<>>
       /\ selectedRowIds' = {}
       /\ search' = EMPTY]_vars

\* a workbook of the header row alone has been loaded by the feed
C24_Witness ==
  /\ ~pendingLoad.pending
  /\ pendingLoad.source.handler = "feed"
  /\ pendingLoad.source.kind = "xlsx"
  /\ pendingLoad.source.data = <<HeaderRow>>
  /\ rows = <<>> /\ alert = "" /\ selectedRowIds = {}

Called == pc = "call" /\ pc' = "return"

\* the characters that are the letter c up to case and accent
CharVariants(c) ==
  CASE c = "i" -> {"i", "I", "í", "Í"}
    [] c = "o" -> {"o", "O", "ó", "Ó"}
    [] c = "f" -> {"f", "F"}
    [] c = "n" -> {"n", "N"}
    [] c = "c" -> {"c", "C"}
    [] c = "e" -> {"e", "E"}
    [] c = "l" -> {"l", "L"}
    [] c = "m" -> {"m", "M"}
    [] OTHER -> {c}

\* k is the word w up to letter case, diacritics and whitespace
RECURSIVE IsVariant(_, _)
IsVariant(k, w) ==
  IF k = EMPTY THEN w = EMPTY
  ELSE IF Head(k) \in {" ", "´"} THEN IsVariant(Tail(k), w)
  ELSE /\ w # EMPTY
       /\ Head(k) \in CharVariants(Head(w))
       /\ IsVariant(Tail(k), Tail(w))

\* C25: normalizeHeaders maps every raw field name that is a header word up
\* to letter case, diacritics and whitespace to the canonical name of that
\* word, with the value of the field.
C25_VariantsMapToCanonical ==
  [][Called =>
       \A i \in 1..Len(input), w \in DOMAIN headerMap :
         IsVariant(input[i].k, w) =>
           /\ headerMap[w] \in DOMAIN output'
           /\ input[i].k # headerMap[w] => input[i].k \notin DOMAIN output']_vars

\* the field name " Fín" has been mapped to "Fin"
C25_Witness ==
  /\ pc = "return"
  /\ input = <<[k |-> <<" ", "F", "í", "n">>, v |-> <<"1">>]>>
  /\ output = (<<"F", "i", "n">> :> <<"1">>)

\* k is no header word up to letter case, diacritics and whitespace
Unrecognized(k) == \A w \in DOMAIN headerMap : ~IsVariant(k, w)

\* C26: normalizeHeaders passes every unrecognized raw key through: it is
\* in the output under the same name and with the same value.
C26_UnrecognizedPassThrough ==
  [][Called =>
       \A i \in 1..Len(input) :
         Unrecognized(input[i].k) =>
           /\ input[i].k \in DOMAIN output'
           /\ output'[input[i].k] = input[i].v]_vars

\* every field name of the row is a header word up to letter case,
\* diacritics and whitespace
AllKeysRecognized(obj) == \A i \in 1..Len(obj) : ~Unrecognized(obj[i].k)

\* C27: an element of a JSON feed whose keys are variants of the canonical
\* names yields the Course fields the same row yields when it is loaded
\* from a tabular source.
C27_JsonMappedAsTabular ==
  [][(Called /\ AllKeysRecognized(input)) =>
       /\ output'.json.Especialidad = output'.tabular.Especialidad
       /\ output'.json.SEPE_URL = output'.tabular.SEPE_URL
       /\ output'.json.Nivel = output'.tabular.Nivel]_vars

\* C28: exporting a batch with toCSV and importing the result as a csv
\* file reproduces, for every record and in the same order, the same code
\* and level.
C28_ExportImportRoundTrip ==
  [][Called =>
       /\ Len(output') = Len(input)
       /\ \A i \in 1..Len(input) :
            /\ output'[i].Especialidad = Coalesce(input[i].Especialidad, EMPTY)
            /\ output'[i].Nivel = Coalesce(input[i].Nivel, EMPTY)]_vars

\* the rules whose pattern matches the lower-cased text
MatchingRules(text) ==
  { r \in 1..Len(categoryRules) : ruleMatches(r, toLowerCase(OrElse(text, EMPTY))) }

\* the label of the earliest matching rule, and fallback when there is none
EarliestLabel(text, fallback) ==
  IF MatchingRules(text) = {} THEN fallback
  ELSE categoryRules[CHOOSE r \in MatchingRules(text) :
                       \A q \in MatchingRules(text) : r <= q].label

\* C29 as stated: the label is that of the earliest rule matching the
\* lower-cased text, and "Other" when no rule matches.
C29_Original == [][Called => output' = EarliestLabel(input, "Other")]_vars

\* C29: categorize returns the label of the earliest rule, in the fixed
\* order, whose pattern matches the lower-cased text, whatever later rules
\* match, and the fixed label "Otros" when no rule matches.
C29_FirstMatchOrOtros == [][Called => output' = EarliestLabel(input, "Otros")]_vars

\* a title in capitals that matches the rules of Estética and of Informática
\* has got the label of the earlier one
C29_Witness ==
  /\ pc = "return"
  /\ Cardinality(MatchingRules(input)) >= 2
  /\ input # toLowerCase(input)
  /\ output = "Estética / Imagen Personal"

\* C30: an edit of a record's Especialidad sets its SEPE_URL to the URL of
\* the new text in the same update and leaves its RowId and its Nivel, every
\* other record, the cache mapping and the selection as they were.
C30_EditSetsUrlOnly ==
  [][updateRow =>
       /\ Len(rows') = Len(rows)
       /\ \E i \in 1..Len(rows), value \in EspValues :
            /\ rows'[i].Especialidad = value
            /\ rows'[i].SEPE_URL = makeUrl(value)
            /\ rows'[i].Nivel = rows[i].Nivel
            /\ rows'[i].RowId = rows[i].RowId
            /\ \A j \in 1..Len(rows) : j # i => rows'[j] = rows[j]
       /\ nivelCache' = nivelCache
       /\ storage' = storage
       /\ selectedRowIds' = selectedRowIds]_vars

\* a selected record that holds a level has had its Especialidad emptied,
\* and its URL with it
C30_Witness ==
  \E i \in 1..Len(rows) :
    /\ rows[i].Nivel = <<"2">>
    /\ rows[i].Especialidad = EMPTY
    /\ rows[i].SEPE_URL = EMPTY
    /\ rows[i].RowId \in selectedRowIds

\* a lookup is issued for task i in this step
Dispatched(i) == i \in InFlight' /\ i \notin InFlight

\* the records of the click that are neither without a code nor cache hits
MissesOfClick ==
  { j \in 1..Len(rows) :
      /\ IsSelected(rows[j])
      /\ Visible(rows[j])
      /\ normCode(rows[j].Especialidad) # EMPTY
      /\ ~isCacheHit(normCode(rows[j].Especialidad), nivelCache) }

\* C31: within one run exactly one lookup is issued for each record placed in
\* toFetch, and none for a record served from the cache: every selected record
\* with a code and no cached level is in toFetch exactly once (also when two
\* records share a normalized code), no record of cachedRows is in toFetch,
\* the loop issues the lookup of each task of toFetch in turn, a lookup is
\* only ever issued for a task that had none before, and when pLimit has
\* returned every task has had its lookup.
C31_OneLookupPerRecord ==
  [][/\ (pc = "idle" /\ pc' = "step2") =>
          /\ Len(toFetch') = Cardinality(MissesOfClick)
          /\ \A j \in MissesOfClick :
               Cardinality({ i \in 1..Len(toFetch') : toFetch'[i].RowId = rows[j].RowId }) = 1
          /\ \A k \in 1..Len(cachedRows') :
               \A i \in 1..Len(toFetch') : toFetch'[i].RowId # cachedRows'[k].RowId
     /\ pc \in {"loop", "race", "all"} =>
          /\ Len(status) = Len(toFetch)
          /\ pc' # "idle" => toFetch' = toFetch /\ nextTask' >= nextTask
     /\ pc = "loop" => Dispatched(nextTask) /\ nextTask' = nextTask + 1
     /\ \A i \in 1..Len(status') :
          Dispatched(i) => pc = "loop" /\ i = nextTask /\ status[i] = "queued"
     /\ RunCompletes => nextTask = Len(toFetch) + 1 /\ InFlight = {}]_vars

\* C31 witness: a run over two records with the same normalized code has had
\* both lookups answered, one of them with a failure.
C31_Witness ==
  /\ pc = "all"
  /\ Len(toFetch) = 2
  /\ normCode(toFetch[1].Especialidad) = normCode(toFetch[2].Especialidad)
  /\ promiseAllResolved(executing, status)
  /\ Len(results) = 2
  /\ results[1].nivel = EMPTY
  /\ results[2].nivel # EMPTY

\* C32: a run never replaces a non-empty level with an empty one: in every
\* step taken from the click that starts a run to the step that ends it, a
\* record of the run whose level is non-empty keeps a non-empty level, so a
\* record whose level was non-empty when the run started has one when it ends.
C32_LevelNeverEmptied ==
  [][(pc # "idle" \/ pc' # "idle") =>
       \A j \in 1..Len(rows) :
         (rows[j].RowId \in selected' \cup selected /\ Truthy(rows[j].Nivel)) =>
           /\ j <= Len(rows')
           /\ rows'[j].RowId = rows[j].RowId
           /\ Truthy(rows'[j].Nivel)]_vars

\* C33: every entry the scheduler writes into the cache has a non-empty level:
\* a lookup answered with the empty string as level leaves the mapping as it
\* was, and every entry that is new or changed after a lookup is answered has
\* a non-empty level.
C33_NoEmptyLevelCached ==
  [][\A i \in 1..Len(status) :
       Completes(i) =>
         /\ results'[Len(results')].nivel = EMPTY => nivelCache' = nivelCache
         /\ \A k \in DOMAIN nivelCache' :
              (k \notin DOMAIN nivelCache \/ nivelCache'[k] # nivelCache[k]) =>
                nivelCache'[k].nivel # EMPTY]_vars

\* a step of the run: the click, Steps 2 and 3, an iteration of pLimit, an
\* answer to a lookup, Steps 5 and 6
RunStep ==
  \/ fetchNivelForSelected
  \/ applyCachedStep
  \/ pLimitIter
  \/ complete(Responses)
  \/ finishRun

\* C34: a run changes nothing in the batch except the level and the detail URL
\* of the records selected when it started: every step of a run keeps the
\* number and the order of the records, the RowId and the Especialidad of
\* each, and every field of a record that was not selected at the click.
C34_RunFrame ==
  [][RunStep =>
       /\ Len(rows') = Len(rows)
       /\ \A j \in 1..Len(rows) :
            /\ rows'[j].RowId = rows[j].RowId
            /\ rows'[j].Especialidad = rows[j].Especialidad
            /\ rows[j].RowId \notin (selected \cup selected') => rows'[j] = rows[j]]_vars

\* C34 witness: pLimit has returned with a level for a record that was edited
\* while its lookup was in flight, and the batch holds a record that was not
\* selected at the click.
C34_Witness ==
  /\ pc = "all"
  /\ promiseAllResolved(executing, status)
  /\ \E j \in 1..Len(rows) : rows[j].RowId \notin selected
  /\ \E i \in 1..Len(toFetch), j \in 1..Len(rows) :
       /\ rows[j].RowId = toFetch[i].RowId
       /\ rows[j].Especialidad # toFetch[i].Especialidad
       /\ ResultOf(i).nivel # EMPTY
       /\ rows[j].Nivel # ResultOf(i).nivel

\* the csv feed requested while the run awaits its lookups has arrived and its
\* batch has been installed
InstalledInFlight ==
  /\ pc # "idle"
  /\ pendingLoad.source.handler = "feed"
  /\ ~pendingLoad.pending
  /\ ~ingestThrows(pendingLoad.source)

\* C35: if a new batch is loaded while lookups are in flight, no step of the
\* run taken afterwards (an answer to a lookup, an iteration of pLimit, Steps
\* 5 and 6) modifies a record of the new batch or changes the selection: the
\* run only writes to the cache.
C35_RunLeavesNewBatch ==
  [][(RunStep /\ InstalledInFlight) =>
       /\ rows' = rows
       /\ selectedRowIds' = selectedRowIds
       /\ UNCHANGED << apiBase, search >>]_vars

\* the RowIds of a batch
IdsOf(batch) == { batch[j].RowId : j \in 1..Len(batch) }

\* C36: in every reachable state every selected id belongs to a record of the
\* current batch: after every step the selection is within the ids of the
\* batch, a step that changes the ids of the batch leaves the selection
\* empty, and a step of a run only removes ids from the selection.
C36_SelectionWithinBatch ==
  [][/\ selectedRowIds' \subseteq IdsOf(rows')
     /\ IdsOf(rows') # IdsOf(rows) => selectedRowIds' = {}
     /\ RunStep => selectedRowIds' \subseteq selectedRowIds]_vars

\* C36 witness: the batch is one record of a feed, loaded after an earlier
\* run wrote to the cache; the record is selected and the lookup of a run is
\* in flight.
C36_Witness ==
  /\ pc = "all"
  /\ InFlight # {}
  /\ Len(rows) = 1
  /\ rows[1].RowId.src = "feed"
  /\ selectedRowIds = { rows[1].RowId }
  /\ nivelCache # EmptyCache

\* C37: in pLimit(4, tasks) the first min(4, n) tasks are started without
\* waiting, before any task has completed, and the loop suspends only once
\* four tasks have been started; the fifth and every later task is started
\* only when at least one task started before it has completed.
C37_FifthTaskWaits ==
  [][/\ \A i \in 1..Len(status') :
          Dispatched(i) =>
            IF i <= CONCURRENCY
              THEN \A k \in 1..Len(status) : status[k] # "done"
              ELSE \E k \in 1..(i - 1) : status[k] = "done"
     /\ pc' = "race" => nextTask' > CONCURRENCY /\ Len(toFetch') >= CONCURRENCY]_vars

\* C37 witness: the fifth task of a run has been started after one of the
\* first four completed, the other three still in flight.
C37_Witness ==
  /\ Len(status) >= 5
  /\ status[5] = "inflight"
  /\ Cardinality({ k \in 1..4 : status[k] = "done" }) = 1
  /\ Cardinality({ k \in 1..4 : status[k] = "inflight" }) = 3

\* C38: at most one run is in progress at any time: the loading flag is true
\* exactly from the click that passes the guards to the end of the run (Steps
\* 5 and 6, the early exit when everything is cached, or an error), so the
\* fetch button is disabled for as long as a run is in progress; a run only
\* starts while the flag is false; and a click rejected by a guard leaves the
\* flag false.
C38_OneRunAtATime ==
  [][/\ loadingNivel' <=> pc' # "idle"
     /\ (pc = "idle" /\ pc' # "idle") => ~loadingNivel
     /\ (fetchNivelForSelected /\ pc' = "idle") =>
          ~loadingNivel' /\ alert' # "" /\ UNCHANGED << rows, selectedRowIds, nivelCache >>]_vars

\* C38 witness: a run is in progress with its flag set, one lookup answered
\* and another in flight, and records of the batch are selected.
C38_Witness ==
  /\ loadingNivel
  /\ pc = "all"
  /\ InFlight # {}
  /\ Len(results) = 1
  /\ selectedRowIds # {}
  /\ Truthy(apiBase)

\* C39: hydrateNivelFromCache is idempotent and leaves non-matching records
\* untouched: hydrating the hydrated batch with the same mapping gives the
\* hydrated batch again, and a record whose normalized code has no entry with
\* a non-empty level is returned as it was.
C39_HydrationIdempotent ==
  [][Hydrates =>
       /\ hydrateNivelFromCache(rows', nivelCache) = rows'
       /\ Len(rows') = Len(rows)
       /\ \A i \in 1..Len(rows) :
            LET k == normCode(rows[i].Especialidad)
            IN  ~(k \in DOMAIN nivelCache /\ nivelCache[k].nivel # EMPTY) =>
                  rows'[i] = rows[i]]_vars

\* C39 witness: after a hydration the first record has the level and the URL
\* of its entry, and the second, whose entry has an empty level, has neither
\* a level nor a URL.
C39_Witness ==
  /\ pc = "idle" /\ Len(rows) = 2
  /\ rows[1].Nivel = <<"3">> /\ rows[1].SEPE_URL = <<"v">>
  /\ normCode(rows[2].Especialidad) \in DOMAIN nivelCache
  /\ nivelCache[normCode(rows[2].Especialidad)].nivel = EMPTY
  /\ rows[2].Nivel = NULL /\ rows[2].SEPE_URL = EMPTY

====
